---- MODULE Spec2Model ----
(***************************************************************************)
(* A model of the search core of youtube-transcript-search                 *)
(* (src/backend/search.py, class SearchService) over a small corpus of     *)
(* videos, transcripts and channels.                                       *)
(*                                                                         *)
(* Texts are sequences of one-character strings.  The SQL the service      *)
(* sends to PostgreSQL is modelled by what PostgreSQL computes for it:     *)
(* ILIKE/LIKE pattern matching, position(), REPLACE(), SUBSTRING(),        *)
(* to_tsquery()/@@/ts_rank() over lower-cased word tokens (no stemming,    *)
(* no stop words), pg_trgm similarity(), GROUP BY, ORDER BY ... LIMIT.     *)
(* Ranks, relevance and similarity are fixed-point numbers with Scale      *)
(* units to 1.0.                                                           *)
(***************************************************************************)
EXTENDS Integers, Sequences, FiniteSets, Bags, TLC

VARIABLES
    videos,   \* the corpus: the rows of videos (joined with channels, transcripts)
    query,    \* the query string the calls of this run are made with
    call,     \* the call received last: its operation and arguments
    out,      \* Pending while the call is being served, then what it gave back
    log,      \* the earlier calls related to the last one, with what they gave back
    transcripts,  \* the rows of the transcripts table, while ingestion is followed
    jobs,         \* the ingestion operations in progress, each with its local state
    errors,       \* the rows of the transcript_errors table
    fetch,        \* the fetch_transcript call that is followed on its own
    subscriptions,  \* the websub_subscriptions row of each channel
    hub,            \* the subscribe requests the hub has accepted
    renewal,        \* renew_expiring_subscriptions: where it is and what it counted
    calls,          \* the subscribe or unsubscribe call in progress, with its local state
    emitted,             \* the progress events a background channel job has emitted
    message_queues,      \* ConnectionManager.message_queues[job_id], if any
    active_connections,  \* job_id is in ConnectionManager.active_connections
    sent                 \* the messages sent to the job's WebSocket client

\* the state of the search calls
serving == <<query, call, out, log>>

\* the state of ingestion, of the WebSub subscriptions, of the job sockets
ingestion == <<transcripts, jobs, errors, fetch>>
websub == <<subscriptions, hub, renewal, calls>>
sockets == <<emitted, message_queues, active_connections, sent>>

\* the state of the service outside the search calls
background == <<ingestion, websub, sockets>>

vars == <<videos, query, call, out, log, transcripts, jobs, errors, fetch,
          subscriptions, hub, renewal, calls, emitted, message_queues, active_connections,
          sent>>

\* nothing is being ingested, renewed or reported
NoIngestion == transcripts = <<>> /\ jobs = <<>> /\ errors = <<>> /\ fetch = <<>>
NoWebSub == subscriptions = <<>> /\ hub = <<>> /\ renewal = <<>> /\ calls = <<>>
NoSockets ==
    emitted = <<>> /\ message_queues = <<>> /\ active_connections = FALSE /\ sent = <<>>

\* SQL NULL / Python None: of a text, of a number, of a transcript row
NULL == <<"NULL">>
None == 0 - 1
NoTranscript == [text |-> NULL, snippets |-> <<>>]

\* what a call gives back: the value it returns, or the exception it raises
Returned(value) == [status |-> "returned", value |-> value]
Raised == [status |-> "raised", value |-> <<>>]
Pending == [status |-> "pending", value |-> <<>>]

(***************************************************************************)
(* Characters and strings                                                  *)
(***************************************************************************)
UpperCase == <<"A","B","C","D","E","F","G","H","I","J","K","L","M",
               "N","O","P","Q","R","S","T","U","V","W","X","Y","Z">>
LowerCase == <<"a","b","c","d","e","f","g","h","i","j","k","l","m",
               "n","o","p","q","r","s","t","u","v","w","x","y","z">>
Digits == {"0","1","2","3","4","5","6","7","8","9"}

\* str.lower() / SQL lower() of one character
LowerChar(c) ==
    IF \E i \in 1..26 : UpperCase[i] = c
    THEN LowerCase[CHOOSE i \in 1..26 : UpperCase[i] = c]
    ELSE c

\* str.lower() / SQL lower()
Lower(s) == [i \in 1..Len(s) |-> LowerChar(s[i])]

IsAlnum(c) == \/ \E i \in 1..26 : LowerCase[i] = LowerChar(c)
              \/ c \in Digits

\* a character the regular expression \w matches
IsWordChar(c) == IsAlnum(c) \/ c = "_"

\* a character the regular expression \s matches
IsSpace(c) == c = " "

\* s[i..] begins with p (no case folding)
StartsAt(s, i, p) ==
    /\ i + Len(p) - 1 <= Len(s)
    /\ \A k \in 1..Len(p) : s[i + k - 1] = p[k]

\* SQL position(p in s): the 1-based index of the first occurrence, 0 if none
Position(p, s) ==
    IF \E i \in 1..(Len(s) + 1) : StartsAt(s, i, p)
    THEN CHOOSE i \in 1..(Len(s) + 1) :
            StartsAt(s, i, p) /\ \A j \in 1..(i - 1) : ~StartsAt(s, j, p)
    ELSE 0

\* the text has the query as a case-insensitive substring
Contains(s, q) == Position(Lower(q), Lower(s)) > 0

\* the concatenation of a sequence of strings with sep between them
RECURSIVE Join(_, _)
Join(parts, sep) ==
    IF parts = <<>> THEN <<>>
    ELSE IF Len(parts) = 1 THEN parts[1]
    ELSE parts[1] \o sep \o Join(Tail(parts), sep)

\* str.split(): the maximal runs of non-whitespace characters, in order
Split(s) ==
    LET starts == {i \in 1..Len(s) : ~IsSpace(s[i]) /\ (i = 1 \/ IsSpace(s[i - 1]))}
        EndOf(i) == CHOOSE j \in i..Len(s) :
                        /\ \A k \in i..j : ~IsSpace(s[k])
                        /\ j = Len(s) \/ IsSpace(s[j + 1])
        Nth(n) == CHOOSE i \in starts : Cardinality({k \in starts : k < i}) = n - 1
    IN [n \in 1..Cardinality(starts) |-> SubSeq(s, Nth(n), EndOf(Nth(n)))]

\* SQL LIKE: % matches any run of characters, _ any one character
RECURSIVE Like(_, _, _, _)
Like(s, i, p, j) ==
    IF j > Len(p) THEN i > Len(s)
    ELSE IF p[j] = "%"
         THEN \E k \in i..(Len(s) + 1) : Like(s, k, p, j + 1)
         ELSE /\ i <= Len(s)
              /\ (p[j] = "_" \/ p[j] = s[i])
              /\ Like(s, i + 1, p, j + 1)

\* s ILIKE '%q%'
ILikeAround(s, q) == Like(Lower(s), 1, <<"%">> \o Lower(q) \o <<"%">>, 1)

\* the index of the first occurrence of q in s at or after i, 0 if none
PositionFrom(q, s, i) ==
    IF \E k \in i..(Len(s) + 1) : StartsAt(s, k, q)
    THEN CHOOSE k \in i..(Len(s) + 1) :
            StartsAt(s, k, q) /\ \A j \in i..(k - 1) : ~StartsAt(s, j, q)
    ELSE 0

\* the number of non-overlapping occurrences of a non-empty q in s at or after
\* i, scanning left to right and resuming right after each match's end
RECURSIVE CountFrom(_, _, _)
CountFrom(s, i, q) ==
    LET k == PositionFrom(q, s, i) IN
    IF k = 0 THEN 0 ELSE 1 + CountFrom(s, k + Len(q), q)

\* (LENGTH(s) - LENGTH(REPLACE(s, q, ''))) for non-empty q, in characters
RemovedByReplace(s, q) == IF q = <<>> THEN 0 ELSE Len(q) * CountFrom(s, 1, q)

(***************************************************************************)
(* The text-index store: what PostgreSQL computes for the service's SQL    *)
(***************************************************************************)
Scale == 100 * 100

\* the word tokens of a text: its maximal alphanumeric runs, lower-cased
Words(s) == Split([i \in 1..Len(s) |-> IF IsAlnum(s[i]) THEN LowerChar(s[i]) ELSE " "])

\* characters that are operators of the tsquery language
TsOperatorChars == {"&", "|", "!", "(", ")", "<", ">", ":"}

Arrow == <<"<", "-", ">">>

HasOperatorChar(item) == \E i \in 1..Len(item) : item[i] \in TsOperatorChars

\* to_tsquery('english', s) is a syntax error: the items of s must be operands
\* separated by the <-> operator, and an operand holds no operator character
ToTsqueryRaises(s) ==
    LET items == Split(s) IN
    /\ items # <<>>
    /\ \/ Len(items) % 2 = 0
       \/ \E i \in 1..Len(items) :
            IF i % 2 = 1 THEN HasOperatorChar(items[i]) ELSE items[i] # Arrow

\* the lexemes of to_tsquery('english', s), in phrase order; an operand with
\* no word character gives no lexeme (PostgreSQL drops it with a NOTICE)
RECURSIVE LexemesFrom(_, _)
LexemesFrom(items, i) ==
    IF i > Len(items) THEN <<>>
    ELSE Words(items[i]) \o LexemesFrom(items, i + 2)

ToTsquery(s) == LexemesFrom(Split(s), 1)

\* vector @@ tsquery: the lexemes occur in the document as adjacent tokens, in order
TsMatch(doc, lex) ==
    LET toks == Words(doc) IN
    /\ lex # <<>>
    /\ \E i \in 1..Len(toks) :
         /\ i + Len(lex) - 1 <= Len(toks)
         /\ \A k \in 1..Len(lex) : toks[i + k - 1] = lex[k]

\* ts_rank of a lexeme that occurs n times with the default weight 0.1:
\* (0.1 * sum of 1/j^2 for j in 1..n) / 1.64493406685
RelOfCount(n) ==
    CASE n <= 0 -> 0
      [] n = 1 -> 608
      [] n = 2 -> 760
      [] n = 3 -> 827
      [] OTHER -> 865

Occurrences(toks, w) == Cardinality({i \in 1..Len(toks) : toks[i] = w})

MinOf(S) == CHOOSE x \in S : \A y \in S : x <= y
MaxOf(S) == CHOOSE x \in S : \A y \in S : x >= y

\* ts_rank(vector, tsquery), in Scale units: positive when every lexeme of the
\* query occurs in the document (an empty query ranks 0)
TsRank(doc, lex) ==
    IF lex = <<>> THEN 0
    ELSE LET toks == Words(doc) IN
         RelOfCount(MinOf({Occurrences(toks, lex[k]) : k \in 1..Len(lex)}))

\* pg_trgm: the trigrams of each word padded with two blanks before, one after
TrigramsOfWord(w) ==
    LET padded == <<" ", " ">> \o w \o <<" ">> IN
    {SubSeq(padded, i, i + 2) : i \in 1..(Len(padded) - 2)}

Trigrams(s) ==
    LET ws == Words(s) IN UNION {TrigramsOfWord(ws[i]) : i \in 1..Len(ws)}

\* pg_trgm similarity(a, b), in Scale units: shared trigrams over all trigrams
Similarity(a, b) ==
    LET ta == Trigrams(a)
        tb == Trigrams(b)
    IN IF ta \cup tb = {} THEN 0
       ELSE (Scale * Cardinality(ta \cap tb)) \div Cardinality(ta \cup tb)

(***************************************************************************)
(* SearchService._prepare_tsquery                                          *)
(***************************************************************************)
\* a character re.sub(r"[^\w\s]", "", query) keeps
KeepWordOrSpace(c) == IsWordChar(c) \/ IsSpace(c)

\* re.sub(r"[^\w\s]", "", s): s without its punctuation
RECURSIVE CleanedFrom(_, _)
CleanedFrom(s, i) ==
    IF i > Len(s) THEN <<>>
    ELSE IF KeepWordOrSpace(s[i]) THEN <<s[i]>> \o CleanedFrom(s, i + 1)
    ELSE CleanedFrom(s, i + 1)

AdjacencySep == <<" ", "<", "-", ">", " ">>

\* a _prepare_tsquery that asks for the phrase only when exact_match is set
PrepareTsqueryLoose(q, exact_match) ==
    LET cleaned == CleanedFrom(q, 1)
        words == Split(Lower(cleaned))
    IN IF words = <<>> THEN Lower(q)
       ELSE IF exact_match THEN Join(words, AdjacencySep)
       ELSE Join(words, <<" ", "&", " ">>)

\* a _prepare_tsquery that joins the words by the AND operator
PrepareTsqueryAnd(q, exact_match) ==
    LET cleaned == CleanedFrom(q, 1)
        words == Split(Lower(cleaned))
    IN IF words = <<>> THEN Lower(q)
       ELSE Join(words, <<" ", "&", " ">>)

\* _prepare_tsquery(query, exact_match): the tsquery string
PrepareTsquery(q, exact_match) ==
    LET cleaned == CleanedFrom(q, 1)
        words == Split(Lower(cleaned))
    IN IF words = <<>> THEN Lower(q)
       ELSE IF exact_match THEN Join(words, AdjacencySep)
       ELSE IF Len(words) > 1 THEN Join(words, AdjacencySep)
       ELSE words[1]

(***************************************************************************)
(* The corpus                                                              *)
(***************************************************************************)
MaxVideos == 2
MaxLimit == 2
MaxPage == 1
DefaultLimit == 20
DefaultMinSimilarity == 3000

TxtIntroToRust == <<"I", "n", "t", "r", "o", " ", "t", "o", " ", "R", "u", "s", "t">>
TxtWelcome == <<"w", "e", "l", "c", "o", "m", "e", " ", "b", "a", "c", "k", " ",
                "t", "o", " ", "r", "u", "s", "t", " ",
                "p", "r", "o", "g", "r", "a", "m", "m", "i", "n", "g">>
TxtHello == <<"h", "e", "l", "l", "o">>
TxtWorld == <<"w", "o", "r", "l", "d">>
TxtAb == <<"a", "b">>
TxtCd == <<"c", "d">>
TxtAbCd == <<"a", "b", " ", "c", "d">>
TxtAbCdAbCd == <<"a", "b", " ", "c", "d", " ", "a", "b", " ", "c", "d">>
TxtCat == <<"c", "a", "t">>
TxtCatUpper == <<"C", "a", "t">>
TxtCatCatCat == <<"c", "a", "t", " ", "c", "a", "t", " ", "c", "a", "t">>
TxtCab == <<"c", "a", "b">>
TxtRust == <<"r", "u", "s", "t">>
TxtPython == <<"p", "y", "t", "h", "o", "n">>
TxtBC == <<"b", " ", "c">>
TxtAmp == <<"&">>
TxtEmpty == <<>>
TxtCUnderscoreT == <<"c", "_", "t">>
TxtFiller == <<" ", "q", "q", "q", "q", "q", "q", "q">>

\* n copies of s, one after the other
RECURSIVE Repeat(_, _)
Repeat(s, n) == IF n = 0 THEN <<>> ELSE s \o Repeat(s, n - 1)

\* a text of 96 characters: "ab xc_ty" and eleven more words
TxtLong == TxtAb \o <<" ", "x", "c", "_", "t", "y">> \o Repeat(TxtFiller, 11)

Seg(start, text) == [start |-> start, text |-> text]

\* a transcript whose text is the segments' texts run together
RunTogether(segments) ==
    [text |-> Join([i \in 1..Len(segments) |-> segments[i].text], <<>>),
     snippets |-> segments]

\* the transcript row ingestion stores for the fetched segments: the text is
\* the segments' texts joined by single spaces
StoredTranscript(segments) ==
    [text |-> Join([i \in 1..Len(segments) |-> segments[i].text], <<" ">>),
     snippets |-> segments]

Video(channel, title, description, transcript) ==
    [channel |-> channel, title |-> title,
     description |-> description, transcript |-> transcript]

Channels == {"c1", "c2"}

VideoPool ==
    << Video("c1", TxtIntroToRust, NULL, StoredTranscript(<<Seg(5, TxtWelcome)>>)),
       Video("c1", TxtHello, TxtAbCd,
             StoredTranscript(<<Seg(0, TxtHello), Seg(2, TxtWorld)>>)),
       Video("c1", TxtAb, NULL, StoredTranscript(<<Seg(1, TxtAbCdAbCd)>>)),
       Video("c1", TxtAb, NULL,
             StoredTranscript(<<Seg(0, TxtAb), Seg(1, TxtCd), Seg(2, TxtAbCd)>>)),
       Video("c2", TxtCatUpper, TxtCat, StoredTranscript(<<Seg(3, TxtCatCatCat)>>)),
       Video("c2", TxtRust, TxtCab, StoredTranscript(<<Seg(4, TxtCab)>>)),
       Video("c1", TxtCat, TxtAbCd, NoTranscript),
       Video("c2", TxtRust, NULL, StoredTranscript(<<Seg(7, TxtLong)>>)) >>

QueryPool == {TxtAb, TxtCat, TxtRust, TxtPython, TxtWorld, TxtHello, TxtBC,
              TxtEmpty, TxtAmp, TxtCUnderscoreT}

\* the corpora: up to MaxVideos rows drawn from the pool (a row may repeat:
\* two videos with the same texts); the row number is the video's identifier
Corpora ==
    UNION {{[i \in 1..n |-> VideoPool[f[i]]] :
              f \in {g \in [1..n -> 1..Len(VideoPool)] :
                        \A i \in 1..(n - 1) : g[i] <= g[i + 1]}} :
           n \in 1..MaxVideos}

VideoIds == 1..MaxVideos

\* the texts the store holds: titles, descriptions, transcripts, segments
StoreTexts ==
    UNION {{VideoPool[i].title, VideoPool[i].description, VideoPool[i].transcript.text}
           \cup {VideoPool[i].transcript.snippets[k].text :
                    k \in 1..Len(VideoPool[i].transcript.snippets)} :
           i \in 1..Len(VideoPool)}

\* the tsquery strings of the queries, computed once
TsQueryOf == [q \in QueryPool, e \in BOOLEAN |-> PrepareTsquery(q, e)]
TsQueries == {TsQueryOf[q, e] : q \in QueryPool, e \in BOOLEAN}

\* the store's answers for its texts, computed once
SimilarityOf == [t \in StoreTexts, q \in QueryPool |-> Similarity(t, q)]
ILikeOf == [t \in StoreTexts, q \in QueryPool |-> ILikeAround(t, q)]
TsMatchOf == [t \in StoreTexts, s \in TsQueries |-> TsMatch(t, ToTsquery(s))]
TsRankOf == [t \in StoreTexts, s \in TsQueries |-> TsRank(t, ToTsquery(s))]

(***************************************************************************)
(* SearchService.search                                                    *)
(***************************************************************************)
\* the timestamp subquery of the transcript branch: the start of the first
\* segment whose lower-cased text is LIKE %query.lower()%
FirstLikeSegmentStart(snippets, q) ==
    LET hits == {i \in 1..Len(snippets) : ILikeOf[snippets[i].text, q]} IN
    IF hits = {} THEN None ELSE snippets[MinOf(hits)].start

\* CASE WHEN t.text ILIKE :like_query THEN 100 ELSE 0 END
TranscriptBonus(text, q) == IF ILikeOf[text, q] THEN 100 * Scale ELSE 0

\* the rank expression of the transcript branch
TranscriptRank(text, q, ts_query) ==
    TsRankOf[text, ts_query] * 10 + SimilarityOf[text, q] * 5 + TranscriptBonus(text, q)

\* the rank expression of the title branch
TitleRank(title, q, ts_query) ==
    TsRankOf[title, ts_query] * 5 + SimilarityOf[title, q] * 3

\* the rank expression of the description branch
DescriptionRank(description, q, ts_query) ==
    TsRankOf[description, ts_query] * 2 + SimilarityOf[description, q] * 1

\* the WHERE clause of the transcript branch
TranscriptMatches(text, q, ts_query, min_similarity) ==
    \/ TsMatchOf[text, ts_query]
    \/ SimilarityOf[text, q] > min_similarity
    \/ ILikeOf[text, q]

\* the WHERE clause of the title branch
TitleMatches(title, q, ts_query, min_similarity) ==
    \/ TsMatchOf[title, ts_query]
    \/ SimilarityOf[title, q] > min_similarity

\* a description branch without the IS NOT NULL test, a null matching
DescriptionMatchesNull(description, q, ts_query, min_similarity) ==
    \/ description = NULL
    \/ TsMatchOf[description, ts_query]
    \/ SimilarityOf[description, q] > min_similarity

\* the WHERE clause of the description branch
DescriptionMatches(description, q, ts_query, min_similarity) ==
    /\ description # NULL
    /\ \/ TsMatchOf[description, ts_query]
       \/ SimilarityOf[description, q] > min_similarity

\* ts_headline('english', text, to_tsquery('english', :ts_query), ...), kept
\* symbolic: the text it excerpts and the tsquery whose words it marks
TsHeadline(text, ts_query) == [of |-> text, ts_query |-> ts_query]

\* a snippet that is a column as stored (v.title as snippet)
PlainSnippet(text) == [of |-> text, ts_query |-> NULL]

\* the rows of the search_results CTE: one per video and matching field
SearchRows(vs, q, ts_query, min_similarity) ==
    {[video_id |-> v, match_type |-> "transcript",
      rank |-> TranscriptRank(vs[v].transcript.text, q, ts_query),
      snippet |-> TsHeadline(vs[v].transcript.text, ts_query),
      timestamp |-> FirstLikeSegmentStart(vs[v].transcript.snippets, q)] :
        v \in {w \in DOMAIN vs :
                 /\ vs[w].transcript # NoTranscript
                 /\ TranscriptMatches(vs[w].transcript.text, q, ts_query, min_similarity)}}
    \cup
    {[video_id |-> v, match_type |-> "title",
      rank |-> TitleRank(vs[v].title, q, ts_query),
      snippet |-> PlainSnippet(vs[v].title), timestamp |-> None] :
        v \in {w \in DOMAIN vs : TitleMatches(vs[w].title, q, ts_query, min_similarity)}}
    \cup
    {[video_id |-> v, match_type |-> "description",
      rank |-> DescriptionRank(vs[v].description, q, ts_query),
      snippet |-> TsHeadline(vs[v].description, ts_query), timestamp |-> None] :
        v \in {w \in DOMAIN vs :
                 DescriptionMatches(vs[w].description, q, ts_query, min_similarity)}}

\* COUNT(*) FILTER (WHERE match_type = type) of a video's rows
CountRows(rows, v, type) ==
    Cardinality({r \in rows : r.video_id = v /\ r.match_type = type})

\* an aggregate that keeps the lowest rank of a video's rows
MinRank(rows, v) == MinOf({r.rank : r \in {x \in rows : x.video_id = v}})

\* MAX(rank) of a video's rows
MaxRank(rows, v) == MaxOf({r.rank : r \in {x \in rows : x.video_id = v}})

\* the best_timestamp subquery: the timestamp of the video's transcript row of
\* highest rank, NULL without one
BestTimestamp(rows, v) ==
    LET ts == {r \in rows : r.video_id = v /\ r.match_type = "transcript"} IN
    IF ts = {} THEN None
    ELSE (CHOOSE r \in ts : \A x \in ts : r.rank >= x.rank).timestamp

\* the best_snippet subquery: the snippet of the video's transcript row of
\* highest rank, NULL without one
BestSnippet(rows, v) ==
    LET ts == {r \in rows : r.video_id = v /\ r.match_type = "transcript"} IN
    IF ts = {} THEN PlainSnippet(NULL)
    ELSE (CHOOSE r \in ts : \A x \in ts : r.rank >= x.rank).snippet

\* float(x) if x else None
FloatOrNone(x) == IF x = None \/ x = 0 THEN None ELSE x

\* the dictionary search() builds from one row of the grouped result
SearchResult(rows, v) ==
    [video_id |-> v,
     transcript_matches |-> CountRows(rows, v, "transcript"),
     title_matches |-> CountRows(rows, v, "title"),
     description_matches |-> CountRows(rows, v, "description"),
     rank |-> MaxRank(rows, v),
     best_snippet |-> BestSnippet(rows, v),
     best_timestamp |-> FloatOrNone(BestTimestamp(rows, v))]

\* the sequences that hold each element of S once
Orderings(S) ==
    {f \in [1..Cardinality(S) -> S] :
        \A i, j \in 1..Cardinality(S) : i # j => f[i] # f[j]}

\* a result with no ORDER BY: the groups in any order
Unordered(S, key) == Orderings(S)

\* ORDER BY key DESC: every order of the groups in which the key never
\* increases; the order among equal keys is the store's choice
OrderByDesc(S, key) ==
    {f \in Orderings(S) : \A i \in 1..(Len(f) - 1) : key[f[i]] >= key[f[i + 1]]}

\* a cut that keeps the last limit rows of the ordering
LimitFromEnd(rows, limit, offset) ==
    SubSeq(rows, IF Len(rows) > limit THEN Len(rows) - limit + 1 ELSE 1, Len(rows))

\* LIMIT limit OFFSET offset
LimitOffset(rows, limit, offset) ==
    SubSeq(rows, offset + 1, IF offset + limit < Len(rows) THEN offset + limit ELSE Len(rows))

\* every list search() can return, or Raised when the store rejects the tsquery
SearchOutcomes(vs, q, limit, exact_match, min_similarity) ==
    LET ts_query == TsQueryOf[q, exact_match] IN
    IF ToTsqueryRaises(ts_query) THEN {Raised}
    ELSE LET rows == SearchRows(vs, q, ts_query, min_similarity)
             groups == {r.video_id : r \in rows}
             results == [v \in groups |-> SearchResult(rows, v)]
             max_rank == [v \in groups |-> results[v].rank]
         IN {Returned([i \in DOMAIN LimitOffset(ord, limit, 0) |->
                          results[LimitOffset(ord, limit, 0)[i]]]) :
                ord \in OrderByDesc(groups, max_rank)}

(***************************************************************************)
(* SearchService.search_channel                                            *)
(***************************************************************************)
\* the WHERE clause of the transcript branch (count and page statements)
ChannelTranscriptMatches(text, q, ts_query) ==
    TsMatchOf[text, ts_query] \/ ILikeOf[text, q]

\* the rank expression of the transcript branch
ChannelTranscriptRank(text, q, ts_query) ==
    TsRankOf[text, ts_query] * 10 + TranscriptBonus(text, q)

\* c.channel_id = :channel_id
InChannel(vs, channel_id) == {v \in DOMAIN vs : vs[v].channel = channel_id}

ChannelTranscriptHits(vs, channel_id, q, ts_query) ==
    {v \in InChannel(vs, channel_id) :
        /\ vs[v].transcript # NoTranscript
        /\ ChannelTranscriptMatches(vs[v].transcript.text, q, ts_query)}

ChannelTitleHits(vs, channel_id, ts_query) ==
    {v \in InChannel(vs, channel_id) : TsMatchOf[vs[v].title, ts_query]}

\* a description branch that joins transcripts, as the transcript branch does
ChannelDescriptionHitsJoined(vs, channel_id, ts_query) ==
    {v \in InChannel(vs, channel_id) :
        /\ vs[v].transcript # NoTranscript
        /\ vs[v].description # NULL /\ TsMatchOf[vs[v].description, ts_query]}

ChannelDescriptionHits(vs, channel_id, ts_query) ==
    {v \in InChannel(vs, channel_id) :
        vs[v].description # NULL /\ TsMatchOf[vs[v].description, ts_query]}

\* a count statement that reads the transcript branch only
TranscriptOnlyCount(vs, channel_id, q, ts_query) ==
    Cardinality(ChannelTranscriptHits(vs, channel_id, q, ts_query))

\* count_sql: COUNT(DISTINCT video_id) over the union of the three branches
TotalCount(vs, channel_id, q, ts_query) ==
    Cardinality(ChannelTranscriptHits(vs, channel_id, q, ts_query)
                \cup ChannelTitleHits(vs, channel_id, ts_query)
                \cup ChannelDescriptionHits(vs, channel_id, ts_query))

\* (LENGTH(LOWER(t.text)) - LENGTH(REPLACE(LOWER(t.text), LOWER(:query), '')))
\*   / LENGTH(:query), for a non-empty query
TranscriptMatchCount(text, q) ==
    RemovedByReplace(Lower(text), Lower(q)) \div Len(q)

\* the rows of the page statement's search_results CTE
ChannelRows(vs, channel_id, q, ts_query) ==
    {[video_id |-> v, match_type |-> "transcript",
      rank |-> ChannelTranscriptRank(vs[v].transcript.text, q, ts_query),
      transcript_match_count |-> TranscriptMatchCount(vs[v].transcript.text, q)] :
        v \in ChannelTranscriptHits(vs, channel_id, q, ts_query)}
    \cup
    {[video_id |-> v, match_type |-> "title",
      rank |-> TsRankOf[vs[v].title, ts_query] * 5, transcript_match_count |-> 0] :
        v \in ChannelTitleHits(vs, channel_id, ts_query)}
    \cup
    {[video_id |-> v, match_type |-> "description",
      rank |-> TsRankOf[vs[v].description, ts_query] * 2, transcript_match_count |-> 0] :
        v \in ChannelDescriptionHits(vs, channel_id, ts_query)}

\* the dictionary search_channel() builds from one row of the grouped result
ChannelResult(rows, v) ==
    [video_id |-> v,
     transcript_matches |->
        MaxOf({r.transcript_match_count : r \in {x \in rows : x.video_id = v}}),
     title_matches |-> CountRows(rows, v, "title"),
     description_matches |-> CountRows(rows, v, "description"),
     rank |-> MaxRank(rows, v)]

\* the page statement divides by LENGTH(:query) for every transcript row it selects
DivisionByZero(vs, channel_id, q, ts_query) ==
    Len(q) = 0 /\ ChannelTranscriptHits(vs, channel_id, q, ts_query) # {}

\* every (result_list, total_count) the page statement and the Python after it
\* can give for the total the count statement gave, or Raised
ChannelPageOutcomes(vs, channel_id, q, limit, offset, exact_match, total_count) ==
    LET ts_query == TsQueryOf[q, exact_match] IN
    IF DivisionByZero(vs, channel_id, q, ts_query) THEN {Raised}
    ELSE LET rows == ChannelRows(vs, channel_id, q, ts_query)
             groups == {r.video_id : r \in rows}
             results == [v \in groups |-> ChannelResult(rows, v)]
             max_rank == [v \in groups |-> results[v].rank]
         IN {Returned([results |->
                          [i \in DOMAIN LimitOffset(ord, limit, offset) |->
                              results[LimitOffset(ord, limit, offset)[i]]],
                       total_count |-> total_count]) :
                ord \in OrderByDesc(groups, max_rank)}

\* every (result_list, total_count) search_channel() can return over an
\* unchanging corpus, or Raised
SearchChannelOutcomes(vs, channel_id, q, limit, offset, exact_match) ==
    IF ToTsqueryRaises(TsQueryOf[q, exact_match]) THEN {Raised}
    ELSE ChannelPageOutcomes(vs, channel_id, q, limit, offset, exact_match,
                             TotalCount(vs, channel_id, q, TsQueryOf[q, exact_match]))

\* the endpoint's has_more: offset + len(results) < total_count
HasMore(offset, results, total_count) == offset + Len(results) < total_count

(***************************************************************************)
(* SearchService.get_batch_snippets                                        *)
(***************************************************************************)
Ellipsis == <<".", ".", ".">>
MarkOpen == <<"<", "m", "a", "r", "k", ">">>
MarkClose == <<"<", "/", "m", "a", "r", "k", ">">>

\* SUBSTRING(s, from, count) for from >= 1
Substring(s, from, count) ==
    SubSeq(s, from, IF from + count - 1 < Len(s) THEN from + count - 1 ELSE Len(s))

\* re.sub('(' + re.escape(q) + ')', '<mark>\1</mark>', s, flags=IGNORECASE):
\* the matches are found left to right and do not overlap; the empty pattern
\* matches before every character and at the end
RECURSIVE HighlightFrom(_, _, _)
HighlightFrom(s, i, q) ==
    LET k == PositionFrom(Lower(q), Lower(s), i) IN
    IF k = 0 THEN SubSeq(s, i, Len(s))
    ELSE SubSeq(s, i, k - 1) \o MarkOpen \o SubSeq(s, k, k + Len(q) - 1) \o MarkClose
         \o HighlightFrom(s, k + Len(q), q)

\* the empty pattern: an empty mark before every character and at the end
HighlightEverywhere(s) ==
    LET marks == MarkOpen \o MarkClose
        width == Len(marks) + 1
    IN [k \in 1..(Len(s) * width + Len(marks)) |->
           IF (k - 1) % width < Len(marks) THEN marks[((k - 1) % width) + 1]
           ELSE s[((k - 1) \div width) + 1]]

Highlight(s, q) == IF q = <<>> THEN HighlightEverywhere(s) ELSE HighlightFrom(s, 1, q)

\* the snippet column: up to 75 characters of context on each side of the
\* first occurrence of the query, or the first 200 characters
BatchSnippet(text, q) ==
    LET p == Position(Lower(q), Lower(text)) IN
    IF p > 0
    THEN (IF p > 75 THEN Ellipsis ELSE <<>>)
         \o Substring(text, IF p - 75 > 1 THEN p - 75 ELSE 1, 150 + Len(q))
         \o (IF p + Len(q) + 75 < Len(text) THEN Ellipsis ELSE <<>>)
    ELSE Substring(text, 1, 200) \o Ellipsis

\* the timestamp column: the smallest start among the segments whose
\* lower-cased text holds the lower-cased query
BatchTimestamp(snippets, q) ==
    LET hits == {i \in 1..Len(snippets) :
                    Position(Lower(q), Lower(snippets[i].text)) > 0} IN
    IF hits = {} THEN None ELSE MinOf({snippets[i].start : i \in hits})

\* the dictionary entry built for one row
BatchEntry(transcript, q) ==
    LET raw_snippet == BatchSnippet(transcript.text, q) IN
    [snippet |-> IF raw_snippet # <<>> /\ q # <<>>
                 THEN Highlight(raw_snippet, q) ELSE raw_snippet,
     timestamp |-> FloatOrNone(BatchTimestamp(transcript.snippets, q))]

\* a statement without the v.video_id = ANY(:video_ids) test
BatchSnippetsOfAll(vs, video_ids, q) ==
    LET ts_query == TsQueryOf[q, FALSE] IN
    IF video_ids = {} THEN Returned(<<>>)
    ELSE IF ToTsqueryRaises(ts_query) THEN Raised
    ELSE LET hits == {v \in DOMAIN vs :
                        /\ vs[v].transcript # NoTranscript
                        /\ ChannelTranscriptMatches(vs[v].transcript.text, q, ts_query)}
         IN Returned([v \in hits |-> BatchEntry(vs[v].transcript, q)])

\* what get_batch_snippets() gives back: a dictionary keyed by video
BatchSnippetsOutcome(vs, video_ids, q) ==
    LET ts_query == TsQueryOf[q, FALSE] IN
    IF video_ids = {} THEN Returned(<<>>)
    ELSE IF ToTsqueryRaises(ts_query) THEN Raised
    ELSE LET hits == {v \in video_ids \cap DOMAIN vs :
                        /\ vs[v].transcript # NoTranscript
                        /\ ChannelTranscriptMatches(vs[v].transcript.text, q, ts_query)}
         IN Returned([v \in hits |-> BatchEntry(vs[v].transcript, q)])

(***************************************************************************)
(* SearchService.get_all_video_matches                                     *)
(***************************************************************************)
\* the segments whose lower-cased text is LIKE %query.lower()%
MatchingSegments(snippets, q) ==
    {i \in 1..Len(snippets) : ILikeOf[snippets[i].text, q]}

\* ORDER BY key: every order in which the key never decreases
OrderByAsc(S, key) ==
    {f \in Orderings(S) : \A i \in 1..(Len(f) - 1) : key[f[i]] <= key[f[i + 1]]}

\* every list get_all_video_matches() can return
AllVideoMatchesOutcomes(vs, video_id, q) ==
    IF video_id \notin DOMAIN vs \/ vs[video_id].transcript = NoTranscript
    THEN {Returned(<<>>)}
    ELSE LET snippets == vs[video_id].transcript.snippets
             hits == MatchingSegments(snippets, q)
             start_time == [i \in hits |-> snippets[i].start]
         IN {Returned([k \in DOMAIN ord |->
                          [timestamp |-> snippets[ord[k]].start,
                           text |-> Highlight(snippets[ord[k]].text, q)]]) :
                ord \in OrderByAsc(hits, start_time)}

(***************************************************************************)
(* The calls                                                               *)
(***************************************************************************)
Limits == 1..MaxLimit \cup {DefaultLimit}
MinSimilarities == {DefaultMinSimilarity, DefaultMinSimilarity \div 3}

\* the (limit, offset) pairs a client walks with page size n: the first page,
\* the second page, and the double page
Pages == UNION {{<<n, 0>>, <<n, n>>, <<2 * n, 0>>} : n \in 1..MaxPage}

Call(op, channel_id, limit, offset, exact_match, min_similarity, video_ids, video_id) ==
    [op |-> op, channel_id |-> channel_id, limit |-> limit, offset |-> offset,
     exact_match |-> exact_match, min_similarity |-> min_similarity,
     video_ids |-> video_ids, video_id |-> video_id]

NoCall == Call("none", "", 0, 0, FALSE, 0, {}, 0)

SearchCalls ==
    {Call("search", "", l, 0, e, m, {}, 0) :
        l \in Limits, e \in BOOLEAN, m \in MinSimilarities}

SearchChannelCalls ==
    {Call("search_channel", c, pg[1], pg[2], e, DefaultMinSimilarity, {}, 0) :
        c \in Channels, pg \in Pages, e \in BOOLEAN}

BatchSnippetsCalls ==
    {Call("get_batch_snippets", "", 0, 0, FALSE, 0, ids, 0) : ids \in SUBSET VideoIds}

AllVideoMatchesCalls ==
    {Call("get_all_video_matches", "", 0, 0, FALSE, 0, {}, v) : v \in VideoIds}

Calls == SearchCalls \cup SearchChannelCalls \cup BatchSnippetsCalls
         \cup AllVideoMatchesCalls

\* the place of a (limit, offset) pair in the walk with page size n: first
\* page, second page, double page; 0 when it is none of them
Step(n, limit, offset) ==
    CASE <<limit, offset>> = <<n, 0>> -> 1
      [] <<limit, offset>> = <<n, n>> -> 2
      [] <<limit, offset>> = <<2 * n, 0>> -> 3
      [] OTHER -> 0

\* call a is one a client compares the later call b with: the same search
\* repeated, or an earlier page of the same walk of one channel search
Related(a, b) ==
    /\ a.op = b.op
    /\ \/ a.op = "search" /\ a = b
       \/ /\ a.op = "search_channel"
          /\ a.channel_id = b.channel_id
          /\ a.exact_match = b.exact_match
          /\ \E n \in 1..MaxPage :
                /\ Step(n, a.limit, a.offset) > 0
                /\ Step(n, a.limit, a.offset) < Step(n, b.limit, b.offset)

Init ==
    /\ videos \in Corpora
    /\ query \in QueryPool
    /\ call = NoCall
    /\ out = Returned(<<>>)
    /\ log = {}
    /\ NoIngestion
    /\ NoWebSub
    /\ NoSockets

\* a caller (an endpoint of api.py) invokes a method of SearchService; the log
\* keeps, of the calls related to the new one, what each gave back last.  The
\* service keeps no state between calls, so a run follows one comparison: any
\* first call, then calls related to the one before (a call unrelated to the
\* one before would start from the empty log, as the first call of a run does)
Request(c) ==
    /\ out # Pending
    /\ call = NoCall \/ Related(call, c)
    /\ call' = c
    /\ out' = Pending
    /\ log' = {e \in {x \in log : x.call # call} \cup {[call |-> call, out |-> out]} :
                 Related(e.call, c)}
    /\ UNCHANGED <<videos, query, background>>

Search ==
    /\ out = Pending
    /\ call.op = "search"
    /\ out' \in SearchOutcomes(videos, query, call.limit, call.exact_match,
                               call.min_similarity)
    /\ UNCHANGED <<videos, query, call, log, background>>

SearchChannel ==
    /\ out = Pending
    /\ call.op = "search_channel"
    /\ out' \in SearchChannelOutcomes(videos, call.channel_id, query, call.limit,
                                      call.offset, call.exact_match)
    /\ UNCHANGED <<videos, query, call, log, background>>

GetBatchSnippets ==
    /\ out = Pending
    /\ call.op = "get_batch_snippets"
    /\ out' = BatchSnippetsOutcome(videos, call.video_ids, query)
    /\ UNCHANGED <<videos, query, call, log, background>>

GetAllVideoMatches ==
    /\ out = Pending
    /\ call.op = "get_all_video_matches"
    /\ out' \in AllVideoMatchesOutcomes(videos, call.video_id, query)
    /\ UNCHANGED <<videos, query, call, log, background>>

Next ==
    \/ \E c \in Calls : Request(c)
    \/ Search
    \/ SearchChannel
    \/ GetBatchSnippets
    \/ GetAllVideoMatches

Spec == Init /\ [][Next]_vars

(***************************************************************************)
(* search_channel while ingestion commits                                  *)
(***************************************************************************)
\* search_channel has run its count statement and not yet its page statement
Counted(total_count) == [status |-> "counted", value |-> <<total_count>>]

\* the one call of a run
FirstRequest(c) == call = NoCall /\ Request(c)

\* total_count = self.db.execute(count_sql, ...).scalar()
SearchChannelCount ==
    /\ out = Pending
    /\ call.op = "search_channel"
    /\ out' = IF ToTsqueryRaises(TsQueryOf[query, call.exact_match]) THEN Raised
              ELSE Counted(TotalCount(videos, call.channel_id, query,
                                      TsQueryOf[query, call.exact_match]))
    /\ UNCHANGED <<videos, query, call, log, background>>

\* results = self.db.execute(sql, ...).fetchall() and the return: the statement
\* reads the corpus as committed when it starts
SearchChannelPage ==
    /\ out.status = "counted"
    /\ out' \in ChannelPageOutcomes(videos, call.channel_id, query, call.limit,
                                    call.offset, call.exact_match, out.value[1])
    /\ UNCHANGED <<videos, query, call, log, background>>

Serving == out.status \in {"pending", "counted"}

\* ChannelService._process_videos commits a new video, without transcript yet,
\* while a call is being served (the corpus before the call is any of Init's)
CommitVideo ==
    /\ Serving
    /\ Len(videos) < MaxVideos
    /\ \E i \in 1..Len(VideoPool) :
          videos' = Append(videos, [VideoPool[i] EXCEPT !.transcript = NoTranscript])
    /\ UNCHANGED <<query, call, out, log, background>>

\* ChannelService._process_videos commits the fetched transcript of a video
CommitTranscript ==
    /\ Serving
    /\ \E v \in DOMAIN videos, i \in 1..Len(VideoPool) :
          /\ videos[v].transcript = NoTranscript
          /\ VideoPool[i].transcript # NoTranscript
          /\ [VideoPool[i] EXCEPT !.transcript = NoTranscript] = videos[v]
          /\ videos' = [videos EXCEPT ![v].transcript = VideoPool[i].transcript]
    /\ UNCHANGED <<query, call, out, log, background>>

ConcurrentNext ==
    \/ \E c \in SearchChannelCalls : FirstRequest(c)
    \/ SearchChannelCount
    \/ SearchChannelPage
    \/ CommitVideo
    \/ CommitTranscript

ConcurrentSpec == Init /\ [][ConcurrentNext]_vars

(***************************************************************************)
(* SearchService._prepare_tsquery on its own                               *)
(***************************************************************************)
MaxQueryLen == 4

\* the characters of the queries: a lower-case and an upper-case letter, the
\* underscore (a word character), whitespace and punctuation
QueryAlphabet == {"a", "B", "_", " ", "&"}

QueryStrings == UNION {[1..n -> QueryAlphabet] : n \in 0..MaxQueryLen}

PrepareInit ==
    /\ videos = <<>>
    /\ query \in QueryStrings
    /\ call \in {Call("_prepare_tsquery", "", 0, 0, e, 0, {}, 0) : e \in BOOLEAN}
    /\ out = Pending
    /\ log = {}
    /\ NoIngestion
    /\ NoWebSub
    /\ NoSockets

\* search, search_channel and get_batch_snippets call _prepare_tsquery first
PrepareTsqueryCall ==
    /\ out = Pending
    /\ call.op = "_prepare_tsquery"
    /\ out' = Returned(PrepareTsquery(query, call.exact_match))
    /\ UNCHANGED <<videos, query, call, log, background>>

PrepareNext == PrepareTsqueryCall

PrepareSpec == PrepareInit /\ [][PrepareNext]_vars

(***************************************************************************)
(* Ingestion: channel jobs, retry jobs, extension submissions and WebSub   *)
(* notifications, each in its own database session                         *)
(***************************************************************************)
MaxJobs == 2

\* the external video identifiers YouTube reports
ExternalIds == {"v1", "v2"}

\* what youtube_transcript_api gives for a video (to_raw_data()), and the
\* segments a browser extension posts
FetchedSegments == {<<Seg(0, TxtAb), Seg(1, TxtCd)>>}
SubmittedSegments == {<<Seg(0, TxtAb), Seg(2, TxtCd)>>}

\* a row of the videos table as ingestion writes it; its row number is its id
VideoRow(video_id) == [video_id |-> video_id]

\* fetch_transcript's transcript_data
TranscriptData(segments) ==
    [text |-> StoredTranscript(segments).text,
     snippets |-> StoredTranscript(segments).snippets,
     language_code |-> "en", is_generated |-> TRUE]

\* the transcript submit_video_transcript builds from the posted segments
SubmittedData(segments) ==
    [text |-> Join([i \in 1..Len(segments) |-> segments[i].text], <<" ">>),
     snippets |-> segments, language_code |-> "en", is_generated |-> FALSE]

NoData == [text |-> NULL, snippets |-> <<>>, language_code |-> "", is_generated |-> FALSE]

\* Transcript(video_id=..., text=..., snippets=..., ...)
TranscriptRow(video, data) ==
    [video_id |-> video, text |-> data.text, snippets |-> data.snippets,
     language_code |-> data.language_code, is_generated |-> data.is_generated]

\* a table without a uniqueness constraint
Unconstrained(rows, row) == TRUE

\* videos.video_id is unique
VideoUnique(rows, row) == \A i \in DOMAIN rows : rows[i].video_id # row.video_id

\* transcripts.video_id is unique
TranscriptUnique(rows, row) == \A i \in DOMAIN rows : rows[i].video_id # row.video_id

\* a save that overwrites the transcript a video has
UpsertTranscript(rows, row) ==
    IF \E i \in DOMAIN rows : rows[i].video_id = row.video_id
    THEN [i \in DOMAIN rows |-> IF rows[i].video_id = row.video_id THEN row ELSE rows[i]]
    ELSE Append(rows, row)

\* db.add(transcript); db.commit(): the table after it (the same table when
\* the commit fails with an IntegrityError)
SaveTranscript(rows, row) ==
    IF TranscriptUnique(rows, row) THEN Append(rows, row) ELSE rows

\* a lookup that finds no video
NoExistingVideo(video_id) == 0

\* db.query(Video).filter(Video.video_id == video_id).first(): the row's id, 0 for None
ExistingVideo(video_id) ==
    IF \E i \in DOMAIN videos : videos[i].video_id = video_id
    THEN CHOOSE i \in DOMAIN videos : videos[i].video_id = video_id
    ELSE 0

\* db.query(Transcript).filter(Transcript.video_id == db_video.id).first() is not None
ExistingTranscript(video) == \E i \in DOMAIN transcripts : transcripts[i].video_id = video

\* the local state of an operation: op is what runs, pc the statement it is
\* at, video_id the external identifier it was given, db_video the videos row
\* it holds, todo the videos a retry loop still has to visit, transcript_data
\* what was fetched or posted, error the constraint a failed commit violated
Job(op, pc, video_id, db_video, todo, transcript_data, error) ==
    [op |-> op, pc |-> pc, video_id |-> video_id, db_video |-> db_video,
     todo |-> todo, transcript_data |-> transcript_data, error |-> error]

\* the operation's commit raised the IntegrityError of a constraint
Failed(job, error) == Job(job.op, "raised", "", 0, {}, NoData, error)

\* the operations in progress are a bag: two of them may be in the same state
Started(job) == jobs (+) SetToBag({job})
Moved(job, next) == (jobs (-) SetToBag({job})) (+) SetToBag({next})
Finished(job) == jobs (-) SetToBag({job})

IngestInit ==
    /\ videos = <<>>
    /\ transcripts = <<>>
    /\ jobs = EmptyBag
    /\ errors = <<>>
    /\ fetch = <<>>
    /\ query = <<>>
    /\ call = NoCall
    /\ out = Returned(<<>>)
    /\ log = {}
    /\ NoWebSub
    /\ NoSockets

\* a channel job reaches a video of the list YouTube gave it (_process_videos,
\* also behind check_for_new_videos and the limited add), a WebSub
\* notification names a video, or the extension posts a video and its segments
StartOnVideo ==
    /\ BagCardinality(jobs) < MaxJobs
    /\ \E op \in {"process_videos", "notify", "submit"}, k \in ExternalIds :
          \E data \in IF op = "submit"
                      THEN {SubmittedData(g) : g \in SubmittedSegments} ELSE {NoData} :
              jobs' = Started(Job(op, "check_video", k, 0, {}, data, ""))
    /\ UNCHANGED <<videos, transcripts, errors, fetch, serving, websub, sockets>>

\* retry_failed_transcripts and fetch_missing_transcripts select the videos
\* without a transcript (those the error filter and the limit admit)
StartRetry ==
    /\ BagCardinality(jobs) < MaxJobs
    /\ \E todo \in SUBSET {v \in DOMAIN videos : ~ExistingTranscript(v)} :
          jobs' = Started(Job("retry", "next", "", 0, todo, NoData, ""))
    /\ UNCHANGED <<videos, transcripts, errors, fetch, serving, websub, sockets>>

\* existing_video = db.query(Video)...first()
CheckVideo(job) ==
    /\ job.pc = "check_video"
    /\ LET existing_video == ExistingVideo(job.video_id) IN
       jobs' = IF existing_video # 0
               THEN IF job.op = "notify" THEN Finished(job)
                    ELSE Moved(job, [job EXCEPT !.db_video = existing_video,
                                                !.pc = "check_transcript"])
               ELSE Moved(job, [job EXCEPT !.pc = "insert_video"])
    /\ UNCHANGED <<videos, transcripts, errors, fetch, serving, websub, sockets>>

\* db.add(Video(...)); db.commit()
InsertVideo(job) ==
    /\ job.pc = "insert_video"
    /\ LET row == VideoRow(job.video_id) IN
       IF VideoUnique(videos, row)
       THEN /\ videos' = Append(videos, row)
            /\ jobs' = CASE job.op = "notify" -> Finished(job)
                         [] job.op = "submit" ->
                               Moved(job, [job EXCEPT !.db_video = Len(videos) + 1,
                                                      !.pc = "insert_transcript"])
                         [] OTHER ->
                               Moved(job, [job EXCEPT !.db_video = Len(videos) + 1,
                                                      !.pc = "check_transcript"])
       ELSE /\ videos' = videos
            /\ jobs' = Moved(job, Failed(job, "videos.video_id"))
    /\ UNCHANGED <<transcripts, errors, fetch, serving, websub, sockets>>

\* existing_transcript = db.query(Transcript)...first()
CheckTranscript(job) ==
    /\ job.pc = "check_transcript"
    /\ jobs' = IF ExistingTranscript(job.db_video) THEN Finished(job)
               ELSE Moved(job, [job EXCEPT !.pc = IF job.op = "submit"
                                                  THEN "insert_transcript" ELSE "fetch"])
    /\ UNCHANGED <<videos, transcripts, errors, fetch, serving, websub, sockets>>

\* for idx, video in enumerate(videos_to_retry, 1)
NextToRetry(job) ==
    /\ job.pc = "next"
    /\ IF job.todo = {}
       THEN jobs' = Finished(job)
       ELSE \E v \in job.todo :
               jobs' = Moved(job, [job EXCEPT !.db_video = v, !.todo = job.todo \ {v},
                                              !.pc = "fetch"])
    /\ UNCHANGED <<videos, transcripts, errors, fetch, serving, websub, sockets>>

\* the operations in progress after one of them is done with a video
AfterVideo(job) ==
    IF job.op = "retry"
    THEN Moved(job, [job EXCEPT !.pc = "next", !.db_video = 0, !.transcript_data = NoData])
    ELSE Finished(job)

\* transcript_data, error_data = self.transcript_fetcher.fetch_transcript(...):
\* a transcript, an error that is recorded, or IpBlockedException (break)
FetchTranscript(job) ==
    /\ job.pc = "fetch"
    /\ \/ \E g \in FetchedSegments :
             jobs' = Moved(job, [job EXCEPT !.transcript_data = TranscriptData(g),
                                            !.pc = "insert_transcript"])
       \/ jobs' = AfterVideo(job)
       \/ jobs' = Finished(job)
    /\ UNCHANGED <<videos, transcripts, errors, fetch, serving, websub, sockets>>

\* db.add(Transcript(...)); db.commit()
InsertTranscript(job) ==
    /\ job.pc = "insert_transcript"
    /\ LET row == TranscriptRow(job.db_video, job.transcript_data) IN
       /\ transcripts' = SaveTranscript(transcripts, row)
       /\ jobs' = IF TranscriptUnique(transcripts, row) THEN AfterVideo(job)
                  ELSE Moved(job, Failed(job, "transcripts.video_id"))
    /\ UNCHANGED <<videos, errors, fetch, serving, websub, sockets>>

\* the exception reaches the caller: run_channel_job logs it, the submission
\* answers 500, process_notification returns a failure
ReportError(job) ==
    /\ job.pc = "raised"
    /\ jobs' = Finished(job)
    /\ UNCHANGED <<videos, transcripts, errors, fetch, serving, websub, sockets>>

IngestNext ==
    \/ StartOnVideo
    \/ StartRetry
    \/ \E job \in BagToSet(jobs) : CheckVideo(job)
    \/ \E job \in BagToSet(jobs) : InsertVideo(job)
    \/ \E job \in BagToSet(jobs) : CheckTranscript(job)
    \/ \E job \in BagToSet(jobs) : NextToRetry(job)
    \/ \E job \in BagToSet(jobs) : FetchTranscript(job)
    \/ \E job \in BagToSet(jobs) : InsertTranscript(job)
    \/ \E job \in BagToSet(jobs) : ReportError(job)

IngestSpec == IngestInit /\ [][IngestNext]_vars

(***************************************************************************)
(* TranscriptFetcher.fetch_transcript on its own                           *)
(***************************************************************************)
MaxRetries == 4

\* what self.api.fetch(video_id) does: it returns a transcript or raises
ApiOutcomes ==
    {"transcript", "RequestBlocked", "IpBlocked", "YouTubeRequestFailed", "AgeRestricted",
     "TranscriptsDisabled", "NoTranscriptFound", "VideoUnavailable", "Exception"}

\* the outcomes that raise IpBlockedException
BlockOutcomes == {"RequestBlocked", "IpBlocked"}

\* retry_delay = 10
FirstRetryDelay == 10

\* a retry_delay that stays what it was
ConstantDelay(retry_delay) == retry_delay

\* retry_delay *= 2
Backoff(retry_delay) == retry_delay * 2

\* error_data: {'error_type': ..., 'error_message': ...}, and None
ErrorData(error_type) == [error_type |-> error_type]
NoError == ErrorData("")

\* fetch_transcript(video_id, max_retries) as it starts: attempt is the loop
\* variable, outcomes what the API did at each call so far, slept the waits
\* made so far, status and the two data what the call gave back
FetchCall(video_id, max_retries) ==
    [video_id |-> video_id, max_retries |-> max_retries, attempt |-> 0,
     retry_delay |-> FirstRetryDelay, outcomes |-> <<>>, slept |-> <<>>,
     status |-> "running", transcript_data |-> NoData, error_data |-> NoError]

\* the call after one turn of `for attempt in range(max_retries)`, in which
\* the API did outcome (raw_data are the segments of a transcript it returned)
Attempted(f, outcome, raw_data) ==
    LET called == [f EXCEPT !.outcomes = Append(@, outcome)] IN
    CASE outcome = "transcript" ->
           [called EXCEPT !.status = "returned",
                          !.transcript_data = TranscriptData(raw_data)]
      [] outcome \in BlockOutcomes ->
           [called EXCEPT !.status = "IpBlockedException"]
      [] outcome = "YouTubeRequestFailed" ->
           IF f.attempt < f.max_retries - 1
           THEN [called EXCEPT !.slept = Append(@, f.retry_delay),
                               !.retry_delay = Backoff(@),
                               !.attempt = @ + 1]
           ELSE [called EXCEPT !.status = "returned", !.error_data = ErrorData(outcome)]
      [] OTHER ->
           [called EXCEPT !.status = "returned", !.error_data = ErrorData(outcome)]

FetchInit ==
    /\ fetch \in {FetchCall(k, m) : k \in ExternalIds, m \in 0..MaxRetries}
    /\ transcripts = <<>>
    /\ jobs = <<>>
    /\ errors = <<>>
    /\ videos = <<>>
    /\ query = <<>>
    /\ call = NoCall
    /\ out = Returned(<<>>)
    /\ log = {}
    /\ NoWebSub
    /\ NoSockets

\* one turn of the loop: the API call and the handler of what it raised
Attempt(outcome) ==
    /\ fetch.status = "running"
    /\ fetch.attempt < fetch.max_retries
    /\ \E raw_data \in FetchedSegments : fetch' = Attempted(fetch, outcome, raw_data)
    /\ UNCHANGED <<videos, transcripts, jobs, errors, serving, websub, sockets>>

\* the loop is over without a return: return None, None
ReturnNothing ==
    /\ fetch.status = "running"
    /\ fetch.attempt >= fetch.max_retries
    /\ fetch' = [fetch EXCEPT !.status = "returned"]
    /\ UNCHANGED <<videos, transcripts, jobs, errors, serving, websub, sockets>>

FetchNext ==
    \/ \E outcome \in ApiOutcomes : Attempt(outcome)
    \/ ReturnNothing

FetchSpec == FetchInit /\ [][FetchNext]_vars

\* every API call comes back and every sleep ends
FairFetchSpec == FetchSpec /\ WF_vars(FetchNext)

(***************************************************************************)
(* Channel jobs one video after another: blocks and recorded errors        *)
(***************************************************************************)
MaxErrors == 2

\* what fetch_transcript gives a job: a transcript, an error of a type that is
\* retried or of one that is not, or IpBlockedException
FetchResults == {"transcript", "YouTubeRequestFailed", "NoTranscriptFound", "IpBlockedException"}

RETRYABLE_ERRORS == {"RequestBlocked", "IpBlocked", "YouTubeRequestFailed"}

\* the operations that fetch transcripts for a list of videos
ChannelOps == {"process_videos", "add_limited", "retry_failed", "fetch_missing"}

\* TranscriptError(video_id=..., error_type=..., error_message=...)
ErrorRow(video, error_type) == [video_id |-> video, error_type |-> error_type]

\* db.query(TranscriptError).filter(TranscriptError.video_id == video.id).delete()
DeleteErrors(rows, video) ==
    LET Other(row) == row.video_id # video IN SelectSeq(rows, Other)

\* the transcript_errors table after op has saved a transcript for video
ErrorsAfterSave(rows, video, op) ==
    IF op = "retry_failed" THEN DeleteErrors(rows, video) ELSE rows

HasError(video, types) ==
    \E i \in DOMAIN errors : errors[i].video_id = video /\ errors[i].error_type \in types

AnyError == {errors[i].error_type : i \in DOMAIN errors}

\* the ids of the rows of videos that satisfy the operation's filter, in order
RECURSIVE Selected(_, _)
Selected(op, v) ==
    IF v > Len(videos) THEN <<>>
    ELSE LET wanted ==
               CASE op = "retry_failed" ->
                      ~ExistingTranscript(v) /\ HasError(v, RETRYABLE_ERRORS)
                 [] op = "fetch_missing" ->
                      ~ExistingTranscript(v) /\ ~HasError(v, AnyError)
                 [] OTHER -> TRUE
         IN (IF wanted THEN <<v>> ELSE <<>>) \o Selected(op, v + 1)

\* the summary an operation returns; the early return of
\* fetch_missing_transcripts has no stopped_early
Summary(job) ==
    IF job.op = "fetch_missing" /\ job.visited = 0 /\ job.todo = <<>>
    THEN [new_transcripts |-> 0]
    ELSE [new_transcripts |-> job.new_transcripts, stopped_early |-> job.stopped_early]

\* the job goes on with the next video of its list
SkipVideo(job) == [job EXCEPT !.todo = Tail(@), !.visited = @ + 1]

\* except IpBlockedException: stopped_early = True; break
StopEarly(job) ==
    [job EXCEPT !.todo = Tail(@), !.visited = @ + 1, !.stopped_early = TRUE,
                !.pc = "summary"]

\* a channel job as it enters its loop: todo the videos still to visit,
\* fetch_calls the calls of fetch_transcript made, blocked_at their number when
\* one raised IpBlockedException (0: none did), saved the videos whose
\* transcript this job saved
ChannelJob(op, todo) ==
    [op |-> op, pc |-> "loop", todo |-> todo, visited |-> 0, fetch_calls |-> 0,
     blocked_at |-> 0, saved |-> {}, new_transcripts |-> 0, stopped_early |-> FALSE,
     summary |-> <<>>]

\* the channel's videos as get_all_videos lists them, all in the database
ListedVideos == <<"v1", "v2">>

NoJobRunning == \A i \in DOMAIN jobs : jobs[i].pc = "returned"

ChannelJobInit ==
    /\ videos = [i \in DOMAIN ListedVideos |-> VideoRow(ListedVideos[i])]
    /\ transcripts = <<>>
    /\ errors = <<>>
    /\ jobs = <<>>
    /\ fetch = <<>>
    /\ query = <<>>
    /\ call = NoCall
    /\ out = Returned(<<>>)
    /\ log = {}
    /\ NoWebSub
    /\ NoSockets

\* run_channel_job starts an operation: the query that gives it its videos
StartJob(op) ==
    /\ NoJobRunning
    /\ jobs' = <<ChannelJob(op, Selected(op, 1))>>
    /\ UNCHANGED <<videos, transcripts, errors, fetch, serving, websub, sockets>>

\* one turn of the operation's loop over its videos
VisitVideo(result) ==
    /\ jobs # <<>>
    /\ jobs[1].pc = "loop"
    /\ jobs[1].todo # <<>>
    /\ LET job == jobs[1]
           video == Head(job.todo)
           checks == job.op \in {"process_videos", "add_limited"}
           called == [job EXCEPT !.fetch_calls = @ + 1]
       IN
       IF checks /\ ExistingTranscript(video)
       THEN /\ jobs' = <<SkipVideo(job)>>
            /\ UNCHANGED <<transcripts, errors>>
       ELSE CASE result = "IpBlockedException" ->
                   /\ jobs' = <<StopEarly([called EXCEPT !.blocked_at = called.fetch_calls])>>
                   /\ UNCHANGED <<transcripts, errors>>
              [] result = "transcript" ->
                   \E raw_data \in FetchedSegments :
                      /\ transcripts' = SaveTranscript(transcripts,
                                           TranscriptRow(video, TranscriptData(raw_data)))
                      /\ errors' = ErrorsAfterSave(errors, video, job.op)
                      /\ jobs' = <<SkipVideo([called EXCEPT !.saved = @ \cup {video},
                                                            !.new_transcripts = @ + 1])>>
              [] OTHER ->
                   /\ Len(errors) < MaxErrors
                   /\ errors' = Append(errors, ErrorRow(video, result))
                   /\ jobs' = <<SkipVideo(called)>>
                   /\ UNCHANGED transcripts
    /\ UNCHANGED <<videos, fetch, serving, websub, sockets>>

\* the loop is over or was left: the summary is built, emitted and returned
Summarise ==
    /\ jobs # <<>>
    /\ IF jobs[1].pc = "loop" THEN jobs[1].todo = <<>> ELSE jobs[1].pc = "summary"
    /\ jobs' = <<[jobs[1] EXCEPT !.pc = "returned", !.summary = Summary(jobs[1])]>>
    /\ UNCHANGED <<videos, transcripts, errors, fetch, serving, websub, sockets>>

\* POST /api/videos/submit-transcript for a video of the database, between jobs
SubmitTranscript(video) ==
    /\ NoJobRunning
    /\ ~ExistingTranscript(video)
    /\ \E g \in SubmittedSegments :
          transcripts' = SaveTranscript(transcripts, TranscriptRow(video, SubmittedData(g)))
    /\ errors' = ErrorsAfterSave(errors, video, "submit")
    /\ UNCHANGED <<videos, jobs, fetch, serving, websub, sockets>>

ChannelJobNext ==
    \/ \E op \in ChannelOps : StartJob(op)
    \/ \E result \in FetchResults : VisitVideo(result)
    \/ Summarise
    \/ \E video \in DOMAIN videos : SubmitTranscript(video)

ChannelJobSpec == ChannelJobInit /\ [][ChannelJobNext]_vars

(***************************************************************************)
(* WebSub subscriptions and their renewal (WebSubService)                  *)
(***************************************************************************)
MaxHours == 2

\* times are hours from the moment the renewal runs
ExpiryTimes == 0..(MaxHours + 1)

Subscription(status, expires_at) == [status |-> status, expires_at |-> expires_at]

\* the channel has no websub_subscriptions row
NoSubscription == Subscription("none", None)

\* the rows a channel can have: requested and not verified yet, verified, or
\* failed after a verification
Subscriptions ==
    {NoSubscription, Subscription("pending", None)}
    \cup {Subscription(st, e) : st \in {"active", "failed"}, e \in ExpiryTimes}

\* what subscribe_to_channel does for a channel whose row is existing_sub:
\* the row afterwards, whether a request was posted to the hub, whether the
\* hub accepted it, whether the method raised
SubscribeToChannel(existing_sub) ==
    IF existing_sub.status = "active"
    THEN {[sub |-> existing_sub, posted |-> FALSE, accepted |-> FALSE, raised |-> FALSE]}
    ELSE {[sub |-> Subscription("pending", existing_sub.expires_at),
           posted |-> TRUE, accepted |-> TRUE, raised |-> FALSE],
          [sub |-> IF existing_sub = NoSubscription THEN NoSubscription
                   ELSE Subscription("failed", existing_sub.expires_at),
           posted |-> TRUE, accepted |-> FALSE, raised |-> TRUE]}

\* renew_expiring_subscriptions before it is called
NoRenewal ==
    [pc |-> "idle", hours_before_expiry |-> 0, expiring_subs |-> {}, todo |-> {},
     renewed |-> 0, failed |-> 0, posted |-> {}, accepted |-> {}]

RenewInit ==
    /\ subscriptions \in [Channels -> Subscriptions]
    /\ hub = <<>>
    /\ renewal = NoRenewal
    /\ calls = <<>>
    /\ videos = <<>>
    /\ query = <<>>
    /\ call = NoCall
    /\ out = Returned(<<>>)
    /\ log = {}
    /\ NoIngestion
    /\ NoSockets

\* POST /api/channels/{channel_id}/websub/subscribe
Subscribe(c) ==
    /\ Len(hub) < Cardinality(Channels)
    /\ \E o \in SubscribeToChannel(subscriptions[c]) :
          /\ subscriptions' = [subscriptions EXCEPT ![c] = o.sub]
          /\ hub' = IF o.accepted THEN Append(hub, c) ELSE hub
    /\ UNCHANGED <<calls, renewal, videos, serving, ingestion, sockets>>

\* the hub calls back and verify_subscription activates the row; the lease
\* (5 days) ends after every threshold the renewal can be given
VerifySubscription(c) ==
    /\ subscriptions[c].status = "pending"
    /\ subscriptions' = [subscriptions EXCEPT ![c] = Subscription("active", MaxHours + 1)]
    /\ UNCHANGED <<calls, hub, renewal, videos, serving, ingestion, sockets>>

\* threshold = utcnow() + timedelta(hours=hours_before_expiry); expiring_subs = ...all()
SelectExpiring ==
    /\ renewal.pc = "idle"
    /\ \E h \in 1..MaxHours :
          LET expiring_subs == {c \in Channels : /\ subscriptions[c].status = "active"
                                                 /\ subscriptions[c].expires_at <= h} IN
          renewal' = [NoRenewal EXCEPT !.pc = "loop", !.hours_before_expiry = h,
                                       !.expiring_subs = expiring_subs,
                                       !.todo = expiring_subs]
    /\ UNCHANGED <<calls, subscriptions, hub, videos, serving, ingestion, sockets>>

\* for sub in expiring_subs: self.subscribe_to_channel(...); renewed += 1, or
\* failed += 1 when it raises
RenewOne ==
    /\ renewal.pc = "loop"
    /\ \E c \in renewal.todo : \E o \in SubscribeToChannel(subscriptions[c]) :
          /\ subscriptions' = [subscriptions EXCEPT ![c] = o.sub]
          /\ hub' = IF o.accepted THEN Append(hub, c) ELSE hub
          /\ renewal' = [renewal EXCEPT
                           !.todo = renewal.todo \ {c},
                           !.renewed = IF o.raised THEN @ ELSE @ + 1,
                           !.failed = IF o.raised THEN @ + 1 ELSE @,
                           !.posted = IF o.posted THEN @ \cup {c} ELSE @,
                           !.accepted = IF o.accepted THEN @ \cup {c} ELSE @]
    /\ UNCHANGED <<calls, videos, serving, ingestion, sockets>>

\* return {'success': True, 'total_expiring': ..., 'renewed': ..., 'failed': ...}
ReturnRenewal ==
    /\ renewal.pc = "loop"
    /\ renewal.todo = {}
    /\ renewal' = [renewal EXCEPT !.pc = "returned"]
    /\ UNCHANGED <<calls, subscriptions, hub, videos, serving, ingestion, sockets>>

RenewNext ==
    \/ \E c \in Channels : Subscribe(c)
    \/ \E c \in Channels : VerifySubscription(c)
    \/ SelectExpiring
    \/ RenewOne
    \/ ReturnRenewal

RenewSpec == RenewInit /\ [][RenewNext]_vars

(***************************************************************************)
(* WebSub notifications (WebSubService.process_notification)               *)
(***************************************************************************)
MaxNotifications == 3

\* the channels table while notifications are followed
StoredChannels == {"c1"}

\* config.WEBSUB_SECRET, the secret sent to the hub with every subscription
WEBSUB_SECRET == "websub-secret"

\* the Atom feed of a notification: the first entry's yt:videoId and
\* yt:channelId ("" when the entry lacks it)
Payload(video_id, channel_id) == [yt_videoid |-> video_id, yt_channelid |-> channel_id]

Payloads == {Payload(k, c) : k \in ExternalIds \cup {""}, c \in Channels}

\* hmac.new(secret, payload, hash_func).hexdigest(): one digest for each
\* secret, payload and hash function
Hmac(secret, payload, algorithm) == <<algorithm, secret, payload>>

\* the X-Hub-Signature header: "<algorithm>=<hex digest>", or no header
Signature(algorithm, digest) == [algorithm |-> algorithm, digest |-> digest]
NoSignature == Signature("", <<>>)

\* the headers a notification can come with: none, the hub's, a forged one
Signatures(payload) ==
    {NoSignature,
     Signature("sha1", Hmac(WEBSUB_SECRET, payload, "sha1")),
     Signature("sha1", Hmac("guess", payload, "sha1"))}

\* WebSubService.verify_signature
VerifySignature(payload, signature, secret) ==
    /\ signature # NoSignature
    /\ signature.algorithm \in {"sha1", "sha256"}
    /\ signature.digest = Hmac(secret, payload, signature.algorithm)

\* what process_notification returns
NotificationResult(success, action) == [success |-> success, action |-> action]

\* process_notification(payload, signature): what it returns, whether it
\* stores last_notification_at, whether it adds the video
ProcessedNotification(payload, signature) ==
    CASE payload.yt_videoid = "" \/ payload.yt_channelid = "" ->
           [result |-> NotificationResult(FALSE, "none"), notified |-> FALSE, adds |-> FALSE]
      [] payload.yt_channelid \notin StoredChannels ->
           [result |-> NotificationResult(FALSE, "none"), notified |-> FALSE, adds |-> FALSE]
      [] ExistingVideo(payload.yt_videoid) # 0 ->
           [result |-> NotificationResult(TRUE, "exists"), notified |-> TRUE, adds |-> FALSE]
      [] VideoUnique(videos, VideoRow(payload.yt_videoid)) ->
           [result |-> NotificationResult(TRUE, "created"), notified |-> TRUE, adds |-> TRUE]
      [] OTHER ->
           [result |-> NotificationResult(FALSE, "none"), notified |-> TRUE, adds |-> FALSE]

\* a websub_subscriptions row as notifications use it
NotifiedRow(last_notification_at) ==
    [status |-> "active", last_notification_at |-> last_notification_at]

NotifyInit ==
    /\ videos = <<>>
    /\ subscriptions \in [StoredChannels -> {NoSubscription, NotifiedRow(0)}]
    /\ hub = <<>>
    /\ renewal = <<>>
    /\ calls = <<>>
    /\ query = <<>>
    /\ call = NoCall
    /\ out = Returned(<<>>)
    /\ log = {}
    /\ NoIngestion
    /\ NoSockets

\* POST /api/webhooks/youtube: receive_webhook and process_notification; hub
\* keeps what was received and what became of it
ReceiveWebhook(payload, signature) ==
    /\ Len(hub) < MaxNotifications
    /\ LET done == ProcessedNotification(payload, signature)
           c == payload.yt_channelid
           touched == done.notified /\ subscriptions[c] # NoSubscription
       IN /\ videos' = IF done.adds THEN Append(videos, VideoRow(payload.yt_videoid))
                       ELSE videos
          /\ subscriptions' = IF touched
                              THEN [subscriptions EXCEPT ![c] = NotifiedRow(Len(hub) + 1)]
                              ELSE subscriptions
          /\ hub' = Append(hub, [payload |-> payload, signature |-> signature,
                                 result |-> done.result, touched |-> touched,
                                 stored |-> Len(videos')])
    /\ UNCHANGED <<renewal, calls, serving, ingestion, sockets>>

NotifyNext ==
    \E payload \in Payloads : \E signature \in Signatures(payload) :
        ReceiveWebhook(payload, signature)

NotifySpec == NotifyInit /\ [][NotifyNext]_vars

(***************************************************************************)
(* The subscription handshake with the hub (subscribe, unsubscribe, verify)*)
(***************************************************************************)
MaxRequests == 2

\* YOUTUBE_FEED_TEMPLATE.format(channel_id=channel_id)
TopicUrl(channel_id) ==
    <<"https://www.youtube.com/xml/feeds/videos.xml?channel_id=", channel_id>>

\* a websub_subscriptions row as the handshake uses it
SubscriptionRow(status, topic_url, verify_token) ==
    [status |-> status, topic_url |-> topic_url, verify_token |-> verify_token]

\* the verification the hub makes of a request it accepted; returned says
\* that the call that posted the request has returned
Verification(mode, topic, verify_token, returned) ==
    [mode |-> mode, topic |-> topic, verify_token |-> verify_token, returned |-> returned]

\* hub.challenge
Challenge == "challenge"

\* what verify_webhook answered last: to which request, whether the hub made
\* it for a call that had returned, whether a row matched, (success,
\* challenge) of verify_subscription, whether a row was changed
Answer(mode, topic, verify_token, after_return, matched, success, challenge, changed) ==
    [mode |-> mode, topic |-> topic, verify_token |-> verify_token,
     after_return |-> after_return, matched |-> matched, success |-> success,
     challenge |-> challenge, changed |-> changed]

NoAnswer == Answer("", <<>>, 0, FALSE, FALSE, FALSE, "", FALSE)

\* the hub: issued counts the verify_tokens generated (secrets.token_urlsafe
\* gives a new one each time), pending are the verifications it still owes,
\* verified the channels whose row was activated by a verification of its
\* current topic and token since the last subscribe request for it
Hub(issued, pending, verified, answer) ==
    [issued |-> issued, pending |-> pending, verified |-> verified, answer |-> answer]

\* subscribe_to_channel or unsubscribe_from_channel between its statements
WebSubCall(op, channel_id, pc, had_row, verify_token) ==
    [op |-> op, channel_id |-> channel_id, pc |-> pc, had_row |-> had_row,
     verify_token |-> verify_token]

\* db.query(WebSubSubscription).filter(topic_url == topic, verify_token == ...)
MatchingRows(topic, verify_token) ==
    {c \in DOMAIN subscriptions :
        /\ subscriptions[c] # NoSubscription
        /\ subscriptions[c].topic_url = topic
        /\ subscriptions[c].verify_token = verify_token}

HubInit ==
    /\ subscriptions = [c \in Channels |-> NoSubscription]
    /\ hub = Hub(0, {}, {}, NoAnswer)
    /\ calls = <<>>
    /\ renewal = <<>>
    /\ videos = <<>>
    /\ query = <<>>
    /\ call = NoCall
    /\ out = Returned(<<>>)
    /\ log = {}
    /\ NoIngestion
    /\ NoSockets

\* subscribe_to_channel up to its check of existing_sub
StartSubscribe(c) ==
    /\ calls = <<>>
    /\ calls' = IF subscriptions[c] # NoSubscription /\ subscriptions[c].status = "active"
                THEN <<>>
                ELSE <<WebSubCall("subscribe", c, "post",
                                  subscriptions[c] # NoSubscription, 0)>>
    /\ UNCHANGED <<subscriptions, hub, renewal, videos, serving, ingestion, sockets>>

\* verify_token = secrets.token_urlsafe(32); requests.post(WEBSUB_HUB_URL, ...):
\* the hub accepts the request, or the post raises RequestException
PostSubscribe ==
    /\ calls # <<>>
    /\ calls[1].op = "subscribe"
    /\ calls[1].pc = "post"
    /\ LET c == calls[1].channel_id
           verify_token == hub.issued + 1
       IN \/ /\ hub.issued < MaxRequests
             /\ hub' = [hub EXCEPT !.issued = verify_token,
                                   !.pending = @ \cup {Verification("subscribe", TopicUrl(c),
                                                                    verify_token, FALSE)},
                                   !.verified = @ \ {c}]
             /\ calls' = <<[calls[1] EXCEPT !.pc = "commit", !.verify_token = verify_token]>>
             /\ UNCHANGED subscriptions
          \/ /\ subscriptions' =
                   IF calls[1].had_row
                   THEN [subscriptions EXCEPT ![c].status = "failed"]
                   ELSE subscriptions
             /\ calls' = <<>>
             /\ UNCHANGED hub
    /\ UNCHANGED <<renewal, videos, serving, ingestion, sockets>>

\* the record is created or updated with the new token, status 'pending'
CommitSubscribe ==
    /\ calls # <<>>
    /\ calls[1].op = "subscribe"
    /\ calls[1].pc = "commit"
    /\ LET c == calls[1].channel_id IN
       /\ subscriptions' = [subscriptions EXCEPT
                              ![c] = SubscriptionRow("pending", TopicUrl(c),
                                                     calls[1].verify_token)]
       /\ hub' = [hub EXCEPT
                    !.verified = @ \ {c},
                    !.pending = {IF r.mode = "subscribe" /\ r.topic = TopicUrl(c)
                                    /\ r.verify_token = calls[1].verify_token
                                 THEN [r EXCEPT !.returned = TRUE] ELSE r : r \in @}]
    /\ calls' = <<>>
    /\ UNCHANGED <<renewal, videos, serving, ingestion, sockets>>

\* unsubscribe_from_channel up to its check of the subscription
StartUnsubscribe(c) ==
    /\ calls = <<>>
    /\ calls' = IF subscriptions[c] = NoSubscription
                THEN <<>>
                ELSE <<WebSubCall("unsubscribe", c, "post", TRUE,
                                  subscriptions[c].verify_token)>>
    /\ UNCHANGED <<subscriptions, hub, renewal, videos, serving, ingestion, sockets>>

\* requests.post(WEBSUB_HUB_URL, data) with hub.mode 'unsubscribe'
PostUnsubscribe ==
    /\ calls # <<>>
    /\ calls[1].op = "unsubscribe"
    /\ calls[1].pc = "post"
    /\ \/ /\ hub' = [hub EXCEPT
                       !.pending = @ \cup {Verification("unsubscribe",
                                                        TopicUrl(calls[1].channel_id),
                                                        calls[1].verify_token, FALSE)}]
          /\ calls' = <<[calls[1] EXCEPT !.pc = "commit"]>>
       \/ /\ calls' = <<>>
          /\ UNCHANGED hub
    /\ UNCHANGED <<subscriptions, renewal, videos, serving, ingestion, sockets>>

\* self.db.delete(subscription); self.db.commit(); return success
CommitUnsubscribe ==
    /\ calls # <<>>
    /\ calls[1].op = "unsubscribe"
    /\ calls[1].pc = "commit"
    /\ LET c == calls[1].channel_id IN
       /\ subscriptions' = [subscriptions EXCEPT ![c] = NoSubscription]
       /\ hub' = [hub EXCEPT
                    !.verified = @ \ {c},
                    !.pending = {IF r.mode = "unsubscribe" /\ r.topic = TopicUrl(c)
                                    /\ r.verify_token = calls[1].verify_token
                                 THEN [r EXCEPT !.returned = TRUE] ELSE r : r \in @}]
    /\ calls' = <<>>
    /\ UNCHANGED <<renewal, videos, serving, ingestion, sockets>>

\* GET /api/webhooks/youtube: verify_webhook and verify_subscription, for a
\* request of the hub or of anybody else
VerifyWebhook(mode, topic, verify_token) ==
    LET rows == MatchingRows(topic, verify_token)
        owed == {r \in hub.pending : /\ r.mode = mode /\ r.topic = topic
                                     /\ r.verify_token = verify_token}
        after_return == \E r \in owed : r.returned
    IN
    /\ IF rows = {}
       THEN /\ hub' = [hub EXCEPT !.pending = @ \ owed,
                                  !.answer = Answer(mode, topic, verify_token, after_return,
                                                    FALSE, FALSE, "", FALSE)]
            /\ UNCHANGED subscriptions
       ELSE LET c == CHOOSE c \in rows : TRUE IN
            /\ subscriptions' = IF mode = "subscribe"
                                THEN [subscriptions EXCEPT ![c].status = "active"]
                                ELSE subscriptions
            /\ hub' = [hub EXCEPT
                         !.pending = @ \ owed,
                         !.verified = IF mode = "subscribe" THEN @ \cup {c} ELSE @,
                         !.answer = Answer(mode, topic, verify_token, after_return, TRUE,
                                           TRUE, Challenge, mode = "subscribe")]
    /\ UNCHANGED <<calls, renewal, videos, serving, ingestion, sockets>>

HubNext ==
    \/ \E c \in Channels : StartSubscribe(c)
    \/ PostSubscribe
    \/ CommitSubscribe
    \/ \E c \in Channels : StartUnsubscribe(c)
    \/ PostUnsubscribe
    \/ CommitUnsubscribe
    \/ \E mode \in {"subscribe", "unsubscribe"}, c \in Channels,
          verify_token \in 0..MaxRequests : VerifyWebhook(mode, TopicUrl(c), verify_token)

HubSpec == HubInit /\ [][HubNext]_vars

(***************************************************************************)
(* Progress events of a background channel job (ConnectionManager)         *)
(***************************************************************************)
MaxEvents == 4

\* the one job followed; message_queues is the dict job_id -> queue, written as
\* the sequence of its queues, so <<>> is the empty dict
job_id == 1

ProgressEvents == {"status", "video_progress", "complete", "error"}

FinalEvents == {"complete", "error"}

\* the job has emitted its last event
JobEnded == emitted # <<>> /\ emitted[Len(emitted)] \in FinalEvents

\* ConnectionManager.queue_message
QueueMessage(queues, message) ==
    IF job_id \in DOMAIN queues
    THEN [queues EXCEPT ![job_id] = Append(@, message)]
    ELSE queues

ProgressInit ==
    /\ NoSockets
    /\ videos = <<>>
    /\ query = <<>>
    /\ call = NoCall
    /\ out = Returned(<<>>)
    /\ log = {}
    /\ NoIngestion
    /\ NoWebSub

\* the job's service calls callback(event, data): a 'status' event first, a
\* final event last
Emit(event) ==
    /\ ~JobEnded
    /\ Len(emitted) < MaxEvents
    /\ emitted = <<>> => event = "status"
    /\ emitted' = Append(emitted, event)
    /\ message_queues' = QueueMessage(message_queues, event)
    /\ UNCHANGED <<active_connections, sent, videos, serving, ingestion, websub>>

\* the client opens /ws/channel-job/{job_id}: manager.connect
Connect ==
    /\ ~active_connections
    /\ active_connections' = TRUE
    /\ message_queues' = <<<<>>>>
    /\ UNCHANGED <<emitted, sent, videos, serving, ingestion, websub>>

\* one turn of the loop in send_queued_messages: get_nowait, send_json
SendQueued ==
    /\ active_connections
    /\ job_id \in DOMAIN message_queues
    /\ message_queues[job_id] # <<>>
    /\ sent' = Append(sent, Head(message_queues[job_id]))
    /\ message_queues' = [message_queues EXCEPT ![job_id] = Tail(@)]
    /\ UNCHANGED <<emitted, active_connections, videos, serving, ingestion, websub>>

ProgressNext ==
    \/ \E event \in ProgressEvents : Emit(event)
    \/ Connect
    \/ SendQueued

ProgressSpec == ProgressInit /\ [][ProgressNext]_vars

(***************************************************************************)
(* Properties                                                              *)
(***************************************************************************)
Done(op) == call.op = op /\ out.status = "returned"

\* the list the last search or search_channel call returned
ResultList == IF call.op = "search_channel" THEN out.value.results ELSE out.value

\* the calls compared with one another: the earlier related ones and the last
Answered == {e \in log \cup {[call |-> call, out |-> out]} : e.out.status = "returned"}

VideosOf(results) == {results[i].video_id : i \in DOMAIN results}

HasTranscript(v) == videos[v].transcript # NoTranscript

\* the tsquery string of the last call
LastTsQuery == TsQueryOf[query, call.exact_match]

\* the store's texts that hold a query as a case-insensitive substring
ContainsOf == [t \in StoreTexts, q \in QueryPool |-> Contains(t, q)]

\* C1: in every list search and search_channel return, the rank of each entry
\* is greater than or equal to the rank of the entry that follows it.
C1_RankNonIncreasing ==
    (Done("search") \/ Done("search_channel")) =>
        \A i \in 1..(Len(ResultList) - 1) : ResultList[i].rank >= ResultList[i + 1].rank

\* a channel search returned two videos of different ranks
C1_Witness ==
    /\ Done("search_channel")
    /\ Len(ResultList) >= 2
    /\ ResultList[1].rank > ResultList[2].rank

\* B's transcript matches the query through similarity only
OnlyBySimilarity(v) ==
    /\ HasTranscript(v)
    /\ ~ContainsOf[videos[v].transcript.text, query]
    /\ ~TsMatchOf[videos[v].transcript.text, LastTsQuery]
    /\ SimilarityOf[videos[v].transcript.text, query] > call.min_similarity

\* C2: in search, a video whose transcript contains the raw query as a
\* case-insensitive substring ranks strictly above every video of the same
\* result whose transcript matches only through its similarity score.
C2_PhraseDominance ==
    Done("search") =>
        \A i, j \in DOMAIN out.value :
            ( /\ HasTranscript(out.value[i].video_id)
              /\ ContainsOf[videos[out.value[i].video_id].transcript.text, query]
              /\ OnlyBySimilarity(out.value[j].video_id) )
            => out.value[i].rank > out.value[j].rank

\* the pages of size n of one channel search partition its double page
PagesPartition(n) ==
    \A a, b, c \in Answered :
        ( /\ a.call.op = "search_channel"
          /\ <<a.call.limit, a.call.offset>> = <<n, 0>>
          /\ <<b.call.limit, b.call.offset>> = <<n, n>>
          /\ <<c.call.limit, c.call.offset>> = <<2 * n, 0>> )
        => /\ VideosOf(a.out.value.results) \cap VideosOf(b.out.value.results) = {}
           /\ VideosOf(a.out.value.results) \cup VideosOf(b.out.value.results)
                = VideosOf(c.out.value.results)

\* C3: over a static corpus, for every channel, query and page size n, the
\* pages (limit n, offset 0) and (limit n, offset n) of search_channel have no
\* video in common and together hold the videos of the page (limit 2n, offset 0).
C3_PaginationConsistent == \A n \in 1..MaxPage : PagesPartition(n)

\* C4: repeating the same search call against an unchanged corpus returns an
\* identical ordered list, also when several videos have the same rank.
C4_SearchIdempotent ==
    \A e \in Answered : (Done("search") /\ e.call = call) => e.out = out

\* C5: for every query string, the empty one and one made only of punctuation
\* included, search and search_channel return a list and do not raise.
C5_NeverRaises ==
    call.op \in {"search", "search_channel"} => out.status # "raised"

\* the start of the first segment whose character range, with one separator
\* between segments, holds the 1-based position p of the joined text
RECURSIVE SegmentStartAt(_, _, _, _)
SegmentStartAt(snippets, i, running_offset, p) ==
    IF i > Len(snippets) THEN None
    ELSE IF running_offset <= p - 1 /\ p - 1 < running_offset + Len(snippets[i].text)
         THEN snippets[i].start
    ELSE SegmentStartAt(snippets, i + 1, running_offset + Len(snippets[i].text) + 1, p)

\* the timestamp of the first match of the query in a transcript, by offsets
OffsetTimestamp(transcript, q) ==
    SegmentStartAt(transcript.snippets, 1, 0, Position(Lower(q), Lower(transcript.text)))

\* the transcript holds the (non-empty) query
HoldsQuery(v) ==
    /\ v \in DOMAIN videos
    /\ HasTranscript(v)
    /\ query # <<>>
    /\ ContainsOf[videos[v].transcript.text, query]

\* C6: the timestamp search reports as best_timestamp and get_batch_snippets
\* as timestamp for a match of the raw query at offset p of the full text is
\* the start of the first segment whose offset range contains p.
C6_TimestampBySegmentOffset ==
    /\ Done("search") =>
          \A i \in DOMAIN out.value :
              HoldsQuery(out.value[i].video_id) =>
                  out.value[i].best_timestamp
                    = OffsetTimestamp(videos[out.value[i].video_id].transcript, query)
    /\ Done("get_batch_snippets") =>
          \A v \in DOMAIN out.value :
              HoldsQuery(v) =>
                  out.value[v].timestamp = OffsetTimestamp(videos[v].transcript, query)

\* C7: in search, the transcript_matches of a video whose transcript contains
\* the raw query is the number of non-overlapping case-insensitive occurrences
\* of the query in the full text.
C7_TranscriptMatchesCountOccurrences ==
    Done("search") =>
        \A i \in DOMAIN out.value :
            HoldsQuery(out.value[i].video_id) =>
                out.value[i].transcript_matches
                  = CountFrom(Lower(videos[out.value[i].video_id].transcript.text), 1,
                              Lower(query))

\* C8: get_all_video_matches returns one entry per non-overlapping
\* case-insensitive occurrence of the query in the video's transcript,
\* whatever the division of the text into segments.
C8_OneEntryPerOccurrence ==
    (Done("get_all_video_matches") /\ HoldsQuery(call.video_id)) =>
        Len(out.value)
          = CountFrom(Lower(videos[call.video_id].transcript.text), 1, Lower(query))

\* the ranks of the field matches of a video under the last search call
FieldRanks(v) ==
    LET ts_query == LastTsQuery
        vid == videos[v]
    IN (IF HasTranscript(v)
           /\ TranscriptMatches(vid.transcript.text, query, ts_query, call.min_similarity)
        THEN {<<"transcript", TranscriptRank(vid.transcript.text, query, ts_query)>>}
        ELSE {})
       \cup
       (IF TitleMatches(vid.title, query, ts_query, call.min_similarity)
        THEN {<<"title", TitleRank(vid.title, query, ts_query)>>} ELSE {})
       \cup
       (IF DescriptionMatches(vid.description, query, ts_query, call.min_similarity)
        THEN {<<"description", DescriptionRank(vid.description, query, ts_query)>>}
        ELSE {})

MatchesOfType(v, type) == Cardinality({m \in FieldRanks(v) : m[1] = type})

RustScenario ==
    /\ videos = <<VideoPool[1]>>
    /\ query = TxtRust
    /\ call = Call("search", "", DefaultLimit, 0, FALSE, DefaultMinSimilarity, {}, 0)

\* C9: search returns exactly one aggregate per video with a field match (as
\* many as the limit admits); its three counts are the numbers of matches of
\* each field type and its rank is the highest rank among them.  The "Intro to
\* Rust" video with query "rust" gives one aggregate with transcript_matches 1
\* and title_matches 1.
C9_OneAggregatePerVideo ==
    Done("search") =>
        LET matched == {v \in DOMAIN videos : FieldRanks(v) # {}} IN
        /\ VideosOf(out.value) \subseteq matched
        /\ Cardinality(VideosOf(out.value)) = Len(out.value)
        /\ Len(out.value) = IF call.limit < Cardinality(matched)
                            THEN call.limit ELSE Cardinality(matched)
        /\ \A i \in DOMAIN out.value :
              LET r == out.value[i] IN
              /\ r.transcript_matches = MatchesOfType(r.video_id, "transcript")
              /\ r.title_matches = MatchesOfType(r.video_id, "title")
              /\ r.description_matches = MatchesOfType(r.video_id, "description")
              /\ r.rank = MaxOf({m[2] : m \in FieldRanks(r.video_id)})
        /\ RustScenario =>
              /\ Len(out.value) = 1
              /\ out.value[1].transcript_matches = 1
              /\ out.value[1].title_matches = 1

\* the search of the Rust scenario returned, and its one aggregate ranks by
\* its transcript match, above its title match
C9_Witness ==
    /\ Done("search")
    /\ RustScenario
    /\ Len(out.value) = 1
    /\ out.value[1].rank > TitleRank(TxtIntroToRust, TxtRust, TxtRust)

\* a field text matches by the stated predicate: positive index relevance,
\* similarity above the threshold, or the raw query as a substring
StatedMatch(text) ==
    /\ text # NULL
    /\ \/ TsRankOf[text, LastTsQuery] > 0
       \/ SimilarityOf[text, query] > call.min_similarity
       \/ ContainsOf[text, query]

\* C10: search matches a video through a field if and only if the field has
\* positive index relevance, similarity above min_similarity, or the raw query
\* as a case-insensitive substring; a video no field of which does is not
\* returned.
C10_MatchingPredicate ==
    (Done("search") /\ call.limit >= Len(videos)) =>
        \A v \in DOMAIN videos :
            /\ v \in VideosOf(out.value)
                 <=> \/ StatedMatch(videos[v].transcript.text)
                     \/ StatedMatch(videos[v].title)
                     \/ StatedMatch(videos[v].description)
            /\ \A i \in DOMAIN out.value :
                  out.value[i].video_id = v =>
                      /\ out.value[i].transcript_matches > 0
                           <=> StatedMatch(videos[v].transcript.text)
                      /\ out.value[i].title_matches > 0 <=> StatedMatch(videos[v].title)
                      /\ out.value[i].description_matches > 0
                           <=> StatedMatch(videos[v].description)

\* the bonus as stated: 100 exactly when the text holds the raw query verbatim
\* (ignoring case)
StatedBonus(text) == IF ContainsOf[text, query] THEN 100 * Scale ELSE 0

\* the ranks, by the stated expressions, of the field matches of a video under
\* the last search call
StatedFieldRanks(v) ==
    LET vid == videos[v] IN
    (IF HasTranscript(v)
        /\ TranscriptMatches(vid.transcript.text, query, LastTsQuery, call.min_similarity)
     THEN {TsRankOf[vid.transcript.text, LastTsQuery] * 10
           + SimilarityOf[vid.transcript.text, query] * 5
           + StatedBonus(vid.transcript.text)}
     ELSE {})
    \cup
    (IF TitleMatches(vid.title, query, LastTsQuery, call.min_similarity)
     THEN {TsRankOf[vid.title, LastTsQuery] * 5 + SimilarityOf[vid.title, query] * 3}
     ELSE {})
    \cup
    (IF DescriptionMatches(vid.description, query, LastTsQuery, call.min_similarity)
     THEN {TsRankOf[vid.description, LastTsQuery] * 2
           + SimilarityOf[vid.description, query] * 1}
     ELSE {})

\* C11: in search the rank of a transcript match is relevance*10 +
\* similarity*5, plus 100 exactly when the raw query occurs verbatim (ignoring
\* case) in the transcript text; of a title match relevance*5 + similarity*3;
\* of a description match relevance*2 + similarity*1 (a video's rank being the
\* highest of its matches' ranks).
C11_RankExpressions ==
    Done("search") =>
        \A i \in DOMAIN out.value :
            out.value[i].rank = MaxOf(StatedFieldRanks(out.value[i].video_id))

\* a field of the video holds the tokens of the last call's query as a
\* strictly adjacent phrase
HoldsPhrase(v) ==
    \/ HasTranscript(v) /\ TsMatchOf[videos[v].transcript.text, LastTsQuery]
    \/ TsMatchOf[videos[v].title, LastTsQuery]
    \/ videos[v].description # NULL /\ TsMatchOf[videos[v].description, LastTsQuery]

\* C12: when search is called with exact_match=true, every returned video
\* holds the query's tokens as a strictly adjacent phrase in one of its
\* fields; none is returned by similarity or a non-adjacent occurrence alone.
C12_ExactMatchReturnsPhrasesOnly ==
    (Done("search") /\ call.exact_match /\ ToTsquery(LastTsQuery) # <<>>) =>
        \A i \in DOMAIN out.value : HoldsPhrase(out.value[i].video_id)

\* the videos of the unpaginated result of the last search_channel call
FullChannelResult ==
    {r.video_id : r \in ChannelRows(videos, call.channel_id, query, LastTsQuery)}

\* C13: over a static corpus the total_count of search_channel is the number
\* of distinct videos of the unpaginated result for the same channel and
\* query, whatever limit and offset; so has_more is true exactly when a
\* matching video lies after the returned page.
C13_TotalCountIsResultSize ==
    Done("search_channel") =>
        LET full == Cardinality(FullChannelResult)
            after == full - call.offset - call.limit
        IN /\ out.value.total_count = full
           /\ VideosOf(out.value.results) \subseteq FullChannelResult
           /\ HasMore(call.offset, out.value.results, out.value.total_count)
                <=> after > 0

\* a first page of one video was returned and a second matching video, found
\* by its description only, lies after it
C13_Witness ==
    /\ Done("search_channel")
    /\ call.offset = 0
    /\ Len(out.value.results) = 1
    /\ out.value.total_count = 2
    /\ HasMore(call.offset, out.value.results, out.value.total_count)
    /\ \E v \in FullChannelResult : ~HasTranscript(v)

\* C14: a search_channel call that runs while ingestion commits videos or
\* transcripts computes its page and its total_count from one corpus state
\* (the one its page statement read), so the videos up to the end of a
\* returned page never outnumber total_count.
C14_PageAndTotalFromOneState ==
    Done("search_channel") =>
        /\ out.value.total_count
             = TotalCount(videos, call.channel_id, query, LastTsQuery)
        /\ Len(out.value.results) > 0 =>
              call.offset + Len(out.value.results) <= out.value.total_count

\* the fields search and search_channel results share
Shared(results) ==
    [i \in DOMAIN results |->
        [video_id |-> results[i].video_id,
         rank |-> results[i].rank,
         transcript_matches |-> results[i].transcript_matches,
         title_matches |-> results[i].title_matches,
         description_matches |-> results[i].description_matches]]

\* C15: for a corpus whose videos all belong to one channel,
\* search_channel(channel, query, limit=L, offset=0) returns the same videos in
\* the same order with the same rank and per-field match counts as
\* search(query, limit=L) with the default min_similarity.
C15_ChannelSearchPaginatesGlobalSearch ==
    ( /\ Done("search_channel")
      /\ call.offset = 0
      /\ \A v \in DOMAIN videos : videos[v].channel = call.channel_id )
    => \E o \in SearchOutcomes(videos, query, call.limit, call.exact_match,
                               DefaultMinSimilarity) :
          /\ o.status = "returned"
          /\ Shared(o.value) = Shared(out.value.results)

\* C16: for every video search returns with a transcript match, best_snippet
\* and best_timestamp are the snippet and the timestamp of the video's
\* highest-ranked transcript match; a title or description match is never the
\* representative snippet.
C16_BestSnippetFromTranscriptMatch ==
    Done("search") =>
        \A i \in DOMAIN out.value :
            out.value[i].transcript_matches > 0 =>
                LET t == videos[out.value[i].video_id].transcript IN
                /\ out.value[i].best_snippet = TsHeadline(t.text, LastTsQuery)
                /\ out.value[i].best_timestamp = FirstLikeSegmentStart(t.snippets, query)

\* the videos a field of which matches the last search, and the highest rank
\* among each one's field matches
Matched == {v \in DOMAIN videos : FieldRanks(v) # {}}

VideoRank(v) == MaxOf({m[2] : m \in FieldRanks(v)})

\* C17: search returns at most limit entries, no two of the same video; a
\* matching video left out never has a rank strictly greater than the rank of
\* a returned one (the limit counts videos, not raw matches).
C17_LimitCountsVideos ==
    Done("search") =>
        /\ Len(out.value) <= call.limit
        /\ \A i, j \in DOMAIN out.value :
              out.value[i].video_id = out.value[j].video_id => i = j
        /\ \A v \in Matched \ VideosOf(out.value) :
              \A i \in DOMAIN out.value : VideoRank(v) <= out.value[i].rank

\* two videos match, each through more than one field, the limit is 1, and the
\* one left out ranks strictly below the one returned
C17_Witness ==
    /\ Done("search")
    /\ call.limit = 1
    /\ Len(out.value) = 1
    /\ out.value[1].transcript_matches + out.value[1].title_matches
         + out.value[1].description_matches >= 2
    /\ \E v \in Matched \ VideosOf(out.value) :
          /\ Cardinality(FieldRanks(v)) >= 2
          /\ VideoRank(v) < out.value[1].rank

\* the corpus with a text in place of every null description
Described ==
    [v \in DOMAIN videos |->
        IF videos[v].description = NULL
        THEN [videos[v] EXCEPT !.description = videos[v].title]
        ELSE videos[v]]

\* C18: search and search_channel give description_matches 0 for a video whose
\* description is null, whatever the query, and a call that raises also raises
\* on the corpus whose null descriptions are replaced by texts: a null
\* description is never what makes a search raise.
C18_NullDescriptionNeverMatches ==
    /\ (Done("search") \/ Done("search_channel")) =>
          \A i \in DOMAIN ResultList :
              videos[ResultList[i].video_id].description = NULL
                  => ResultList[i].description_matches = 0
    /\ (call.op = "search" /\ out.status = "raised") =>
          SearchOutcomes(Described, query, call.limit, call.exact_match,
                         call.min_similarity) = {Raised}
    /\ (call.op = "search_channel" /\ out.status = "raised") =>
          SearchChannelOutcomes(Described, call.channel_id, query, call.limit,
                                call.offset, call.exact_match) = {Raised}

\* search returned a video of null description next to one matched through
\* its description
C18_Witness ==
    /\ Done("search")
    /\ \E i, j \in DOMAIN out.value :
          /\ videos[out.value[i].video_id].description = NULL
          /\ out.value[i].description_matches = 0
          /\ out.value[j].description_matches = 1

\* the videos without a transcript whose title or description matches the last
\* call: by the index or by similarity for search, by the index and within
\* the channel for search_channel
UntranscribedHits ==
    {v \in DOMAIN videos :
        /\ ~HasTranscript(v)
        /\ \E text \in {videos[v].title, videos[v].description} \ {NULL} :
              IF call.op = "search"
              THEN \/ TsMatchOf[text, LastTsQuery]
                   \/ SimilarityOf[text, query] > call.min_similarity
              ELSE /\ videos[v].channel = call.channel_id
                   /\ TsMatchOf[text, LastTsQuery]}

StatedSnippet(text, q) ==
    LET p == Position(Lower(q), Lower(text))
        first == IF p - 150 > 1 THEN p - 150 ELSE 1
        last == IF p + Len(q) - 1 + 150 < Len(text) THEN p + Len(q) - 1 + 150 ELSE Len(text)
    IN (IF first > 1 THEN Ellipsis ELSE <<>>)
       \o SubSeq(text, first, last)
       \o (IF last < Len(text) THEN Ellipsis ELSE <<>>)

\* C20: for a query that occurs in a transcript, the snippet get_batch_snippets
\* returns is the window of 150 characters on each side of the first
\* occurrence, clamped to the text, with "..." on a side exactly when text was
\* cut off there (the query marked in it); a text that fits in the window
\* comes back without an ellipsis.
C20_SnippetWindow ==
    (Done("get_batch_snippets") /\ query # <<>>) =>
        \A v \in DOMAIN out.value :
            LET text == videos[v].transcript.text IN
            ContainsOf[text, query] =>
                out.value[v].snippet = Highlight(StatedSnippet(text, query), query)

\* C21: the map get_batch_snippets returns is keyed by requested identifiers
\* only, one entry per key; an identifier that is unknown or whose video has
\* no transcript has no entry, and the call raises only for a tsquery the
\* store rejects, whatever the identifiers; no identifiers give the empty map.
C21_BatchKeysAreRequestedTranscripts ==
    call.op = "get_batch_snippets" =>
        /\ out.status = "returned" =>
              /\ DOMAIN out.value \subseteq call.video_ids
              /\ \A v \in DOMAIN out.value : v \in DOMAIN videos /\ HasTranscript(v)
        /\ out.status = "raised" =>
              call.video_ids # {} /\ ToTsqueryRaises(TsQueryOf[query, FALSE])
        /\ (call.video_ids = {} /\ out # Pending) => out = Returned(<<>>)

\* two identifiers were asked for, one of a video without a transcript or of
\* no video, and the map holds an entry for the other one only
C21_Witness ==
    /\ Done("get_batch_snippets")
    /\ Cardinality(call.video_ids) = 2
    /\ Cardinality(DOMAIN out.value) = 1
    /\ \E v \in call.video_ids \ DOMAIN out.value :
          v \notin DOMAIN videos \/ ~HasTranscript(v)

\* C22: the entries get_all_video_matches returns are in chronological order,
\* each timestamp at most the next one; for a video without a transcript (or
\* no video) the list is empty.
C22_MatchesChronological ==
    Done("get_all_video_matches") =>
        /\ \A k \in 1..(Len(out.value) - 1) :
              out.value[k].timestamp <= out.value[k + 1].timestamp
        /\ (call.video_id \notin DOMAIN videos \/ ~HasTranscript(call.video_id))
              => out.value = <<>>

\* two segments of one video hold the query and came back earlier one first
C22_Witness ==
    /\ Done("get_all_video_matches")
    /\ Len(out.value) = 2
    /\ out.value[1].timestamp < out.value[2].timestamp

\* s from position i on, without the occurrences of a tag
RECURSIVE WithoutFrom(_, _, _)
WithoutFrom(s, i, tag) ==
    LET k == PositionFrom(tag, s, i) IN
    IF k = 0 THEN SubSeq(s, i, Len(s))
    ELSE SubSeq(s, i, k - 1) \o WithoutFrom(s, k + Len(tag), tag)

\* a highlighted text with its mark tags removed
Unmarked(s) == WithoutFrom(WithoutFrom(s, 1, MarkOpen), 1, MarkClose)

\* the text holds a mark span around an occurrence of the query, in any case
HasMarkedOccurrence(s, q) ==
    Position(MarkOpen \o Lower(q) \o MarkClose, Lower(s)) > 0

\* C23: for a non-empty query, % and _ included, every entry
\* get_all_video_matches returns holds a <mark>...</mark> span around a
\* case-insensitive occurrence of the query, and without its mark tags it is
\* the text of the segment it came from.
C23_EveryMatchIsMarked ==
    (Done("get_all_video_matches") /\ query # <<>>) =>
        \A k \in DOMAIN out.value :
            /\ HasMarkedOccurrence(out.value[k].text, query)
            /\ \E i \in DOMAIN videos[call.video_id].transcript.snippets :
                  LET seg == videos[call.video_id].transcript.snippets[i] IN
                  /\ seg.start = out.value[k].timestamp
                  /\ seg.text = Unmarked(out.value[k].text)

\* the tokens of a query whose punctuation is removed, not a separator
StatedTokens(q) ==
    LET kept == {i \in 1..Len(q) : KeepWordOrSpace(q[i])}
        Nth(n) == CHOOSE i \in kept : Cardinality({k \in kept : k < i}) = n - 1
    IN Split([n \in 1..Cardinality(kept) |-> LowerChar(q[Nth(n)])])

\* C24: for a query with at least one token, _prepare_tsquery gives the
\* tokens (the query lower-cased, without the characters that are neither
\* word characters nor whitespace, split on whitespace) in input order with
\* the adjacency operator between each consecutive pair when there are two
\* or more tokens or exact_match is true, and the single token when there is
\* one token and exact_match is false.
C24_PrepareTsqueryShape ==
    (Done("_prepare_tsquery") /\ StatedTokens(query) # <<>>) =>
        LET tokens == StatedTokens(query)
            items == Split(out.value)
        IN /\ Len(items) = 2 * Len(tokens) - 1
           /\ \A i \in 1..Len(items) :
                 items[i] = IF i % 2 = 1 THEN tokens[(i + 1) \div 2] ELSE Arrow
           /\ (Len(tokens) = 1 /\ ~call.exact_match) => out.value = tokens[1]
           /\ \A i \in 1..Len(tokens) : \A k \in 1..Len(tokens[i]) :
                 IsWordChar(tokens[i][k]) /\ tokens[i][k] = LowerChar(tokens[i][k])

\* an upper-case letter and a punctuation mark were in the query, and the
\* result holds two tokens around one adjacency operator
C24_Witness ==
    /\ Done("_prepare_tsquery")
    /\ Len(StatedTokens(query)) = 2
    /\ query # Lower(query)
    /\ \E i \in 1..Len(query) : query[i] = "&"
    /\ Len(Split(out.value)) = 3

\* the operations in progress, as a set
Running == BagToSet(jobs)

\* C25: whatever ingestion operations have run, the text of every stored
\* transcript is the texts of its stored segments, in order, joined by single
\* spaces.
C25_TextIsJoinedSegments ==
    \A i \in DOMAIN transcripts :
        transcripts[i].text =
            Join([k \in 1..Len(transcripts[i].snippets) |-> transcripts[i].snippets[k].text],
                 <<" ">>)

\* a fetched transcript and a posted one, of two segments each, are stored
C25_Witness ==
    \E i, k \in DOMAIN transcripts :
        /\ transcripts[i].is_generated /\ ~transcripts[k].is_generated
        /\ Len(transcripts[i].snippets) = 2 /\ Len(transcripts[k].snippets) = 2

\* C26: however the steps of concurrently running ingestion operations on one
\* video interleave, the video has at most one transcript.
C26_AtMostOneTranscript ==
    \A i, k \in DOMAIN transcripts :
        transcripts[i].video_id = transcripts[k].video_id => i = k

\* two operations found a video without a transcript; one stored its
\* transcript and the commit of the other was refused
C26_Witness ==
    /\ \E job \in Running :
          job.op \in {"process_videos", "submit"} /\ job.error = "transcripts.video_id"
    /\ Len(transcripts) = 1

\* C27: no ingestion step changes or replaces a stored transcript, and a step
\* that stores a transcript stores it for a video that had none.
C27_TranscriptsNeverChange ==
    [][ /\ \A i \in DOMAIN transcripts :
              i \in DOMAIN transcripts' /\ transcripts'[i] = transcripts[i]
        /\ \A i \in DOMAIN transcripts' \ DOMAIN transcripts :
              ~ExistingTranscript(transcripts'[i].video_id) ]_vars

\* a retry loop selected a video without a transcript, another operation
\* stored one meanwhile, and the retry's own commit was refused
C27_Witness ==
    /\ \E job \in Running : job.op = "retry" /\ job.error = "transcripts.video_id"
    /\ Len(transcripts) >= 1

\* C28: however channel jobs, WebSub notifications and extension submissions
\* for one external video identifier interleave, no two stored videos have the
\* same external identifier.
C28_ExternalIdUnique ==
    \A i, k \in DOMAIN videos : videos[i].video_id = videos[k].video_id => i = k

\* a notification found its video missing, another operation stored it
\* meanwhile, and the notification's commit was refused
C28_Witness ==
    /\ \E job \in Running : job.op = "notify" /\ job.error = "videos.video_id"
    /\ Len(videos) >= 1

\* C29: when renew_expiring_subscriptions returns, it has posted a subscribe
\* request to the hub for every subscription that was active and expiring
\* within hours_before_expiry when it looked, and the number it reports as
\* renewed is the number of those requests the hub accepted.
C29_RenewalPostsRequests ==
    renewal.pc = "returned" =>
        /\ renewal.expiring_subs \subseteq renewal.posted
        /\ renewal.renewed = Cardinality(renewal.accepted)

\* C30: no progress event of the job is lost, duplicated or reordered on its
\* way to the client: once the client is connected, the events sent so far
\* followed by the events still queued are exactly the events emitted so far,
\* in emission order, whether the job started before or after the connect.
\* (An event in neither list can never be sent: send_queued_messages sends
\* only what the queue holds.)
C30_EveryEventReachesClient ==
    active_connections =>
        /\ job_id \in DOMAIN message_queues
        /\ sent \o message_queues[job_id] = emitted

\* the wait before the i-th retry: 10 seconds, doubled i - 1 times
RECURSIVE StatedDelay(_)
StatedDelay(i) == IF i <= 1 THEN 10 ELSE 2 * StatedDelay(i - 1)

\* the two data fetch_transcript returned, those that are not None
ReturnedData ==
    {d \in {"transcript_data", "error_data"} :
        \/ d = "transcript_data" /\ fetch.transcript_data # NoData
        \/ d = "error_data" /\ fetch.error_data # NoError}

\* what C32 says of every state of a fetch_transcript call
FetchBounded ==
    /\ Len(fetch.outcomes) <= fetch.max_retries
    /\ \A i \in DOMAIN fetch.outcomes :
          i < Len(fetch.outcomes) => fetch.outcomes[i] = "YouTubeRequestFailed"
    /\ \A i \in DOMAIN fetch.slept : fetch.slept[i] = StatedDelay(i)
    /\ fetch.status = "running" => Len(fetch.slept) = Len(fetch.outcomes)
    /\ fetch.status # "running" /\ fetch.outcomes # <<>> =>
          Len(fetch.slept) = Len(fetch.outcomes) - 1
    /\ fetch.status = "IpBlockedException" <=>
          fetch.outcomes # <<>> /\ fetch.outcomes[Len(fetch.outcomes)] \in BlockOutcomes
    /\ fetch.status = "returned" /\ fetch.max_retries >= 1 => Cardinality(ReturnedData) = 1

\* C32: fetch_transcript ends, after at most max_retries API calls; every call
\* but the last failed with YouTubeRequestFailed and was followed by a wait of
\* 10 seconds doubled at each retry, the last call is followed by none; a
\* block raises IpBlockedException, and for max_retries >= 1 a return gives
\* exactly one of transcript_data and error_data.
C32_FetchTerminatesWithBackoff == []FetchBounded /\ <>(fetch.status # "running")

\* three calls failed and the fourth gave an error: waits of 10, 20 and 40
C32_Witness ==
    /\ fetch.status = "returned"
    /\ fetch.slept = <<10, 20, 40>>
    /\ fetch.error_data = ErrorData("YouTubeRequestFailed")

\* C31: once fetch_transcript has raised IpBlockedException in a channel job,
\* the job calls it no more, is on its way to its summary or has returned it
\* with stopped_early true, and every transcript it saved is still stored.
C31_BlockStopsJob ==
    \A i \in DOMAIN jobs :
        jobs[i].blocked_at # 0 =>
            /\ jobs[i].fetch_calls = jobs[i].blocked_at
            /\ jobs[i].pc \in {"summary", "returned"}
            /\ jobs[i].pc = "returned" => jobs[i].summary.stopped_early = TRUE
            /\ \A video \in jobs[i].saved : ExistingTranscript(video)

\* a job saved a transcript, was blocked at its second video and returned
C31_Witness ==
    /\ jobs # <<>>
    /\ jobs[1].pc = "returned"
    /\ jobs[1].blocked_at = 2
    /\ jobs[1].saved # {}
    /\ jobs[1].todo = <<>>

\* C37: a video that has a transcript has no row in transcript_errors.
C37_TranscriptClearsErrors ==
    \A v \in DOMAIN videos : ExistingTranscript(v) => ~HasError(v, AnyError)

\* C33: a notification whose X-Hub-Signature is missing or does not verify
\* against the shared secret adds no video and changes no subscription.
C33_UnsignedNotificationIgnored ==
    \A i \in DOMAIN hub :
        ~VerifySignature(hub[i].payload, hub[i].signature, WEBSUB_SECRET) =>
            /\ hub[i].result.action # "created"
            /\ ~hub[i].touched

\* the notifications received so far that carry the payload of the i-th
SamePayload(i) == {j \in DOMAIN hub : hub[j].payload = hub[i].payload}

\* C34: of the notifications with one payload for a channel of the database,
\* the first is answered 'created' and every later one success with 'exists',
\* the stored videos being what they were before it; the video is stored
\* once; a notification for a channel not in the database adds no video.
C34_NotificationIdempotent ==
    \A i \in DOMAIN hub :
        LET first == \A j \in SamePayload(i) : i <= j IN
        IF hub[i].payload.yt_channelid \in StoredChannels /\ hub[i].payload.yt_videoid # ""
        THEN /\ first => hub[i].result = NotificationResult(TRUE, "created")
             /\ ~first => /\ hub[i].result = NotificationResult(TRUE, "exists")
                          /\ hub[i].stored = hub[i - 1].stored
             /\ Cardinality({v \in DOMAIN videos :
                               videos[v].video_id = hub[i].payload.yt_videoid}) = 1
        ELSE /\ hub[i].result.action # "created"
             /\ hub[i].stored = IF i = 1 THEN 0 ELSE hub[i - 1].stored

\* the same notification was processed twice
C34_Witness ==
    /\ Len(hub) >= 2
    /\ hub[1].payload = hub[2].payload
    /\ hub[1].result.action = "created"
    /\ hub[2].result.action = "exists"

\* C35: the verification the hub makes, with mode 'unsubscribe' and the
\* topic and token of the request, after unsubscribe_from_channel has returned
\* success is answered (True, challenge).
C35_UnsubscribeConfirmed ==
    hub.answer.mode = "unsubscribe" /\ hub.answer.after_return =>
        hub.answer.success /\ hub.answer.challenge = Challenge

\* C36: a subscription is 'active' only if a verification with mode
\* 'subscribe' and its current topic and token was processed after the last
\* subscribe request for it; a verification that matches no subscription is
\* answered (False, None) and changes none.
C36_ActiveMeansVerified ==
    /\ \A c \in DOMAIN subscriptions :
          subscriptions[c] # NoSubscription /\ subscriptions[c].status = "active" =>
              c \in hub.verified
    /\ hub.answer # NoAnswer /\ ~hub.answer.matched =>
          ~hub.answer.success /\ ~hub.answer.changed

\* C39: search reports a null best_timestamp for a video with a transcript
\* match, and get_batch_snippets a null timestamp, only when no segment
\* supplies a start time for the match; a segment that starts at 0 seconds is
\* reported as timestamp 0.
C39_ZeroTimestampReported ==
    /\ Done("search") =>
          \A i \in DOMAIN out.value :
              LET t == videos[out.value[i].video_id].transcript IN
              out.value[i].transcript_matches > 0 /\ out.value[i].best_timestamp = None =>
                  FirstLikeSegmentStart(t.snippets, query) = None
    /\ Done("get_batch_snippets") =>
          \A v \in DOMAIN out.value :
              out.value[v].timestamp = None =>
                  BatchTimestamp(videos[v].transcript.snippets, query) = None

====
